---- MODULE Spec2Model ----
(***************************************************************************)
(* A model of the installation core of setup-cpp: the memoized LLVM        *)
(* installers of src/llvm/llvm.ts (micro-memoize with isPromise), the      *)
(* strategy chain of setupLLVMOnly, the activation of the installed        *)
(* toolchain in the process environment, and the version resolver          *)
(* getVersion.                                                             *)
(*                                                                         *)
(* Strings that the code builds by interpolation are modelled as tuples    *)
(* of their pieces: a directory is a tuple of path pieces, a path list     *)
(* (LD_LIBRARY_PATH) is the sequence of its segments, i.e. the string      *)
(* split at path.delimiter.  An unset variable is the empty sequence, the  *)
(* empty string is the sequence holding one empty segment.                 *)
(***************************************************************************)
EXTENDS FiniteSets, Integers, Sequences, TLC

(***************************************************************************)
(* Bounds                                                                  *)
(***************************************************************************)
\* number of top-level calls (setupLLVM, setupClangTools, setupClangFormat)
MaxCalls == 2
\* number of activateLLVM applications in SpecActivate
MaxActivations == 3
\* largest host OS major version drawn in SpecVersion
MaxOsMajor == 23

(***************************************************************************)
(* Inputs                                                                  *)
(***************************************************************************)
\* requested LLVM versions "10" and "11.0" as tuples of their components
Versions == {<<10>>, <<11, 0>>}
SetupDir == <<"~/llvm">>
Arch == "x64"
\* process.platform together with isUbuntu()
\* (xcrun: whether "xcrun --sdk macosx --show-sdk-path" prints a path)
Hosts ==
  { [platform |-> "linux", ubuntu |-> TRUE, xcrun |-> FALSE],
    [platform |-> "linux", ubuntu |-> FALSE, xcrun |-> FALSE],
    [platform |-> "darwin", ubuntu |-> FALSE, xcrun |-> TRUE],
    [platform |-> "darwin", ubuntu |-> FALSE, xcrun |-> FALSE],
    [platform |-> "win32", ubuntu |-> FALSE, xcrun |-> FALSE] }
\* the hosts of SpecLLVM: Ubuntu, another Linux, macOS
LLVMHosts == {h \in Hosts : h.platform = "linux" \/ h.xcrun}

VARIABLES
  host,       \* process.platform and isUbuntu() of the running process
  tasks,      \* the async function activations (promises), in creation order
  calls,      \* ids of the tasks of the top-level calls, in issue order
  cacheWA,    \* cache of the memoized setupLLVMWithoutActivation
  cacheBD,    \* cache of the memoized llvmBinaryDeps
  cacheDeps,  \* cache of the memoized setupLLVMDeps
  env,        \* process.env
  actHist,    \* SpecActivate: the activateLLVM applications and their results
  gv,         \* SpecVersion: inputs, tables and result of getVersion
  loc,        \* SpecUrl: one call of getSpecificVersionAndUrl
  pip,        \* SpecPip: one call of setupPipPackWithPython
  alts,       \* SpecLLVM: the registrations made with update-alternatives
  brew,       \* SpecBrew: the module variable binDir and the setupBrew calls
  fs,         \* SpecRC, SpecFinalize: the content of ~/.profile, ~/.bashrc and the rc files
  rcs,        \* SpecRC: the sourceRC calls and the cache of the memoized sourceRC
  fin,        \* SpecFinalize: the file contents after each finalizeRC
  sv          \* SpecSync: opts, tools and the result of syncVersions

vars == <<host, tasks, calls, cacheWA, cacheBD, cacheDeps, env, actHist, gv, loc, pip,
          alts, brew, fs, rcs, fin, sv>>

Min(a, b) == IF a < b THEN a ELSE b

(***************************************************************************)
(* micro-memoize, as configured by memoize(fn, { isPromise: true }):       *)
(* the cache keeps the maxSize most recently used keys (maxSize is left    *)
(* at its default of 1) with the promise the producer returned; the entry  *)
(* is stored when the producer is called, before its promise settles, and  *)
(* is removed again when that promise rejects.                             *)
(***************************************************************************)
MaxSize == 1

MemoIndex(cache, key) ==
  IF \E i \in 1..Len(cache) : cache[i].key = key
  THEN CHOOSE i \in 1..Len(cache) : cache[i].key = key
  ELSE 0

MemoDrop(cache, i) == SubSeq(cache, 1, i - 1) \o SubSeq(cache, i + 1, Len(cache))

\* a cache that stores nothing
MemoAddNothing(cache, key, val) == cache

\* a miss: the new entry goes to the front, the least recently used one is dropped
MemoAdd(cache, key, val) ==
  SubSeq(<<[key |-> key, val |-> val]>> \o cache, 1, Min(MaxSize, Len(cache) + 1))

\* the rejection handler: remove the entry whose key equals the rejected call's key
MemoRemove(cache, key) ==
  IF MemoIndex(cache, key) = 0 THEN cache ELSE MemoDrop(cache, MemoIndex(cache, key))

\* a call that never finds an entry
MemoizedMiss(cache, key, nextId) ==
  [hit |-> FALSE, id |-> nextId, cache |-> <<[key |-> key, val |-> nextId]>>]

\* one call of a memoized function; nextId is the promise a new producer run would get
Memoized(cache, key, nextId) ==
  LET i == MemoIndex(cache, key)
  IN IF i # 0
     THEN [hit |-> TRUE, id |-> cache[i].val, cache |-> <<cache[i]>> \o MemoDrop(cache, i)]
     ELSE [hit |-> FALSE, id |-> nextId, cache |-> MemoAdd(cache, key, nextId)]

(***************************************************************************)
(* Installation info and tasks                                             *)
(***************************************************************************)
NoInfo == [via |-> "none", installDir |-> <<>>, binDir |-> <<>>, by |-> 0]

\* semverCoerceIfInvalid(version).split(".")[0] parsed as a number
majorVersion(version) == Head(version)

\* what setupLLVMApt resolves to; by is the setupLLVMOnly activation that made it
AptInfo(major, by) ==
  [via |-> "apt", installDir |-> <<"/usr/lib/llvm-", ToString(major)>>,
   binDir |-> <<"/usr/lib/llvm-", ToString(major), "bin">>, by |-> by]

\* what setupBin resolves to
BinInfo(setupDir, by) ==
  [via |-> "bin", installDir |-> setupDir, binDir |-> setupDir \o <<"bin">>, by |-> by]

NewTask(kind, key, pc, wait) ==
  [kind |-> kind, key |-> key, pkgs |-> "-", from |-> "-", pc |-> pc, wait |-> wait,
   st |-> "pending", val |-> NoInfo, err |-> {}, apt |-> "none", bin |-> "none",
   act |-> "none"]

\* a slot reserved for a promise that a call may create later
NoTask == [NewTask("none", <<>>, "unused", 0) EXCEPT !.st = "none"]

Settled(t) == tasks[t].st \in {"ok", "err"}

\* setupLLVMOnly up to its first await: setupLLVMApt on Ubuntu, setupBin elsewhere
setupLLVMOnly(version, setupDir, arch, packages, from) ==
  [NewTask("setupLLVMOnly", <<version, setupDir, arch>>,
           IF host.ubuntu THEN "setupLLVMApt" ELSE "setupBin", 0)
     EXCEPT !.pkgs = packages, !.from = from,
            !.apt = IF host.ubuntu THEN "pending" ELSE "skipped",
            !.bin = IF host.ubuntu THEN "none" ELSE "pending"]

\* setupLLVMWithoutActivation_raw up to its first await; id is its own task id.
\* The promises of one activation take consecutive ids: its setupLLVMOnly, the
\* llvmBinaryDeps_raw that setupLLVMOnly may start, the setupLLVMDeps_raw it may start
setupLLVMWithoutActivation_raw(version, setupDir, arch, id) ==
  << NewTask("setupLLVMWithoutActivation_raw", <<version, setupDir, arch>>, "setupLLVMOnly", id + 1),
     setupLLVMOnly(version, setupDir, arch, "All", "setupLLVMWithoutActivation_raw"),
     NoTask, NoTask >>

\* llvmBinaryDeps_raw up to its first await
llvmBinaryDeps_raw(major) ==
  IF host.ubuntu
  THEN [NewTask("llvmBinaryDeps_raw", <<major>>, "setupAptPack", 0)
          EXCEPT !.pkgs = IF major <= 10 THEN "libtinfo5" ELSE "libtinfo-dev"]
  ELSE [NewTask("llvmBinaryDeps_raw", <<major>>, "done", 0) EXCEPT !.st = "ok"]

\* setupLLVMDeps_raw up to its first await
setupLLVMDeps_raw(arch) ==
  IF host.platform = "linux"
  THEN [NewTask("setupLLVMDeps_raw", <<arch>>, "setupGcc", 0) EXCEPT !.pkgs = "gcc"]
  ELSE [NewTask("setupLLVMDeps_raw", <<arch>>, "done", 0) EXCEPT !.st = "ok"]

(***************************************************************************)
(* activateLLVM: the environment mutations                                 *)
(***************************************************************************)
EnvVars ==
  {"LLVM_PATH", "LD_LIBRARY_PATH", "DYLD_LIBRARY_PATH", "LDFLAGS", "CPPFLAGS",
   "CC", "CXX", "LIBRARY_PATH", "SDKROOT"}

Unset == <<>>
EmptyEnv == [n \in EnvVars |-> Unset]

\* process.env.X ?? "" as the list of its segments
Segments(value) == IF value = Unset THEN << <<>> >> ELSE value

addExeExt(h, path) == IF h.platform = "win32" THEN path \o <<".exe">> ELSE path

\* the values activateLLVM hands to addEnv, computed from the environment it reads
activateLLVMValues(h, e, directory) ==
  [ LLVM_PATH         |-> <<directory>>,
    LD_LIBRARY_PATH   |-> <<directory \o <<"lib">>>> \o Segments(e["LD_LIBRARY_PATH"]),
    DYLD_LIBRARY_PATH |-> <<directory \o <<"lib">>>> \o Segments(e["DYLD_LIBRARY_PATH"]),
    LDFLAGS           |-> << <<"-L">> \o directory \o <<"lib">> >>,
    CPPFLAGS          |-> << <<"-I">> \o directory \o <<"include">> >>,
    CC                |-> << addExeExt(h, directory \o <<"bin", "clang">>) >>,
    CXX               |-> << addExeExt(h, directory \o <<"bin", "clang++">>) >>,
    LIBRARY_PATH      |-> <<directory \o <<"lib">>>>,
    SDKROOT           |-> << <<"sdk">> >> ]

\* the environment after the addEnv calls of activateLLVM(directory): addEnv sets
\* the variable in process.env; setupMacOSSDK sets SDKROOT on darwin when xcrun
\* printed a path
activateLLVMEnv(h, e, directory) ==
  [ n \in EnvVars |->
      IF n = "SDKROOT" /\ ~(h.platform = "darwin" /\ h.xcrun)
      THEN e[n]
      ELSE activateLLVMValues(h, e, directory)[n] ]

\* updateAptAlternatives(name, path, rcPath, priority) registers path for name
\* with update-alternatives --install; without a priority the default is used
updateAptAlternatives(name, path, priority) ==
  [name |-> name, path |-> path, priority |-> priority]

\* the registrations of setupGcc(version, "", arch, priority) on Ubuntu: gcc and
\* g++ become alternatives of cc and cxx with the priority it was given
setupGccAlternatives(priority) ==
  { updateAptAlternatives("cc", <<"usr", "bin", "gcc">>, priority),
    updateAptAlternatives("cxx", <<"usr", "bin", "g++">>, priority) }

\* an activateLLVM that registers clang below the priority given to gcc
activateLLVMAlternativesLow(directory) ==
  LET priority == 30
  IN { updateAptAlternatives("cc", directory \o <<"bin", "clang">>, priority),
       updateAptAlternatives("cxx", directory \o <<"bin", "clang++">>, priority) }

\* the updateAptAlternatives calls of activateLLVM(directory) on Ubuntu
activateLLVMAlternatives(directory) ==
  LET priority == 60
  IN { updateAptAlternatives("cc", directory \o <<"bin", "clang">>, priority),
       updateAptAlternatives("cxx", directory \o <<"bin", "clang++">>, priority),
       updateAptAlternatives("clang", directory \o <<"bin", "clang">>, "default"),
       updateAptAlternatives("clang++", directory \o <<"bin", "clang++">>, "default"),
       updateAptAlternatives("lld", directory \o <<"bin", "lld">>, "default"),
       updateAptAlternatives("ld.lld", directory \o <<"bin", "ld.lld">>, "default"),
       updateAptAlternatives("llvm-ar", directory \o <<"bin", "llvm-ar">>, "default") }

(***************************************************************************)
(* SpecLLVM: the top-level calls                                           *)
(***************************************************************************)
LLVMIdle == UNCHANGED <<host, env, actHist, gv, loc, pip, alts, brew, fs, rcs, fin, sv>>

\* setupLLVM(version, setupDir, arch) up to its first await
CallSetupLLVM(version) ==
  /\ Len(calls) < MaxCalls
  /\ LET key == <<version, SetupDir, Arch>>
         id == Len(tasks) + 1
         m == Memoized(cacheWA, key, id + 1)
         self == NewTask("setupLLVM", key, "setupLLVMWithoutActivation", m.id)
     IN /\ tasks' = tasks \o <<self>> \o
                    (IF m.hit THEN <<>>
                     ELSE setupLLVMWithoutActivation_raw(version, SetupDir, Arch, id + 1))
        /\ cacheWA' = m.cache
        /\ calls' = Append(calls, id)
  /\ UNCHANGED <<cacheBD, cacheDeps>>
  /\ LLVMIdle

\* setupClangTools(version, setupDir, arch)
CallSetupClangTools(version) ==
  /\ Len(calls) < MaxCalls
  /\ tasks' = tasks \o <<setupLLVMOnly(version, SetupDir, Arch, "All", "setupClangTools"), NoTask>>
  /\ calls' = Append(calls, Len(tasks) + 1)
  /\ UNCHANGED <<cacheWA, cacheBD, cacheDeps>>
  /\ LLVMIdle

\* setupClangFormat(version, setupDir, arch)
CallSetupClangFormat(version) ==
  /\ Len(calls) < MaxCalls
  /\ tasks' = tasks \o <<setupLLVMOnly(version, SetupDir, Arch, "ClangFormat", "setupClangFormat"), NoTask>>
  /\ calls' = Append(calls, Len(tasks) + 1)
  /\ UNCHANGED <<cacheWA, cacheBD, cacheDeps>>
  /\ LLVMIdle

(***************************************************************************)
(* SpecLLVM: setupLLVMOnly                                                 *)
(***************************************************************************)
\* a setupLLVMOnly that lets the error of setupLLVMApt escape
AptDoneRethrow(t, ok) ==
  /\ tasks[t].kind = "setupLLVMOnly" /\ tasks[t].pc = "setupLLVMApt"
  /\ tasks' = [tasks EXCEPT ![t] =
       IF ok
       THEN [@ EXCEPT !.st = "ok", !.pc = "done", !.apt = "ok",
                      !.val = AptInfo(majorVersion(tasks[t].key[1]), t)]
       ELSE [@ EXCEPT !.st = "err", !.pc = "done", !.apt = "failed", !.err = {"setupLLVMApt"}]]
  /\ UNCHANGED <<calls, cacheWA, cacheBD, cacheDeps>>
  /\ LLVMIdle

\* setupLLVMApt settles: its result is returned, its error is caught and logged
\* with info() and setupBin is called
AptDone(t, ok) ==
  /\ tasks[t].kind = "setupLLVMOnly" /\ tasks[t].pc = "setupLLVMApt"
  /\ tasks' = [tasks EXCEPT ![t] =
       IF ok
       THEN [@ EXCEPT !.st = "ok", !.pc = "done", !.apt = "ok",
                      !.val = AptInfo(majorVersion(tasks[t].key[1]), t)]
       ELSE [@ EXCEPT !.pc = "setupBin", !.apt = "failed", !.bin = "pending"]]
  /\ UNCHANGED <<calls, cacheWA, cacheBD, cacheDeps>>
  /\ LLVMIdle

\* setupBin settles: its error is thrown, on success llvmBinaryDeps(majorVersion) is called
BinDone(t, ok) ==
  /\ tasks[t].kind = "setupLLVMOnly" /\ tasks[t].pc = "setupBin"
  /\ IF ok
     THEN LET major == majorVersion(tasks[t].key[1])
              m == Memoized(cacheBD, <<major>>, t + 1)
          IN /\ tasks' = [tasks EXCEPT
                    ![t] = [@ EXCEPT !.pc = "llvmBinaryDeps", !.wait = m.id, !.bin = "ok",
                                     !.val = BinInfo(tasks[t].key[2], t)],
                    ![t + 1] = IF m.hit THEN @ ELSE llvmBinaryDeps_raw(major)]
             /\ cacheBD' = m.cache
     ELSE /\ tasks' = [tasks EXCEPT ![t] =
                    [@ EXCEPT !.st = "err", !.pc = "done", !.bin = "failed", !.err = {"setupBin"}]]
          /\ UNCHANGED cacheBD
  /\ UNCHANGED <<calls, cacheWA, cacheDeps>>
  /\ LLVMIdle

\* setupAptPack of llvmBinaryDeps_raw settles; a rejection removes the cache entry
AptPackDone(t, ok) ==
  /\ tasks[t].kind = "llvmBinaryDeps_raw" /\ tasks[t].pc = "setupAptPack"
  /\ tasks' = [tasks EXCEPT ![t] =
       IF ok THEN [@ EXCEPT !.st = "ok", !.pc = "done"]
       ELSE [@ EXCEPT !.st = "err", !.pc = "done", !.err = {"setupAptPack"}]]
  /\ cacheBD' = IF ok THEN cacheBD ELSE MemoRemove(cacheBD, tasks[t].key)
  /\ UNCHANGED <<calls, cacheWA, cacheDeps>>
  /\ LLVMIdle

\* await llvmBinaryDeps(majorVersion) returns or throws
OnlyAfterDeps(t) ==
  /\ tasks[t].kind = "setupLLVMOnly" /\ tasks[t].pc = "llvmBinaryDeps"
  /\ Settled(tasks[t].wait)
  /\ tasks' = [tasks EXCEPT ![t] =
       IF tasks[tasks[t].wait].st = "ok"
       THEN [@ EXCEPT !.st = "ok", !.pc = "done"]
       ELSE [@ EXCEPT !.st = "err", !.pc = "done", !.val = NoInfo,
                      !.err = tasks[tasks[t].wait].err]]
  /\ UNCHANGED <<calls, cacheWA, cacheBD, cacheDeps>>
  /\ LLVMIdle

(***************************************************************************)
(* SpecLLVM: setupLLVMWithoutActivation_raw and setupLLVMDeps_raw          *)
(***************************************************************************)
\* Promise.all([setupLLVMOnly(..), addLLVMLoggingMatcher()]) settles (the matcher
\* only logs and never rejects); on success setupLLVMDeps(arch) is called, a
\* rejection rejects the memoized promise and removes the cache entry
WAAfterOnly(t) ==
  /\ tasks[t].kind = "setupLLVMWithoutActivation_raw" /\ tasks[t].pc = "setupLLVMOnly"
  /\ Settled(tasks[t].wait)
  /\ IF tasks[tasks[t].wait].st = "ok"
     THEN LET m == Memoized(cacheDeps, <<tasks[t].key[3]>>, t + 3)
          IN /\ tasks' = [tasks EXCEPT
                    ![t] = [@ EXCEPT !.pc = "setupLLVMDeps", !.val = tasks[tasks[t].wait].val,
                                     !.wait = m.id],
                    ![t + 3] = IF m.hit THEN @ ELSE setupLLVMDeps_raw(tasks[t].key[3])]
             /\ cacheDeps' = m.cache
             /\ UNCHANGED cacheWA
     ELSE /\ tasks' = [tasks EXCEPT ![t] =
                    [@ EXCEPT !.st = "err", !.pc = "done", !.err = tasks[tasks[t].wait].err]]
          /\ cacheWA' = MemoRemove(cacheWA, tasks[t].key)
          /\ UNCHANGED cacheDeps
  /\ UNCHANGED <<calls, cacheBD>>
  /\ LLVMIdle

\* setupGcc(getVersion("gcc", undefined, await ubuntuVersion()), "", arch, 40) settles
GccDone(t, ok) ==
  /\ tasks[t].kind = "setupLLVMDeps_raw" /\ tasks[t].pc = "setupGcc"
  /\ tasks' = [tasks EXCEPT ![t] =
       IF ok THEN [@ EXCEPT !.st = "ok", !.pc = "done"]
       ELSE [@ EXCEPT !.st = "err", !.pc = "done", !.err = {"setupGcc"}]]
  /\ cacheDeps' = IF ok THEN cacheDeps ELSE MemoRemove(cacheDeps, tasks[t].key)
  /\ alts' = IF ok /\ host.ubuntu THEN alts \cup setupGccAlternatives(40) ELSE alts
  /\ UNCHANGED <<calls, cacheWA, cacheBD>>
  /\ UNCHANGED <<host, env, actHist, gv, loc, pip, brew, fs, rcs, fin, sv>>

\* await setupLLVMDeps(arch) returns or throws
WAAfterDeps(t) ==
  /\ tasks[t].kind = "setupLLVMWithoutActivation_raw" /\ tasks[t].pc = "setupLLVMDeps"
  /\ Settled(tasks[t].wait)
  /\ IF tasks[tasks[t].wait].st = "ok"
     THEN /\ tasks' = [tasks EXCEPT ![t] = [@ EXCEPT !.st = "ok", !.pc = "done"]]
          /\ UNCHANGED cacheWA
     ELSE /\ tasks' = [tasks EXCEPT ![t] =
                    [@ EXCEPT !.st = "err", !.pc = "done", !.val = NoInfo,
                              !.err = tasks[tasks[t].wait].err]]
          /\ cacheWA' = MemoRemove(cacheWA, tasks[t].key)
  /\ UNCHANGED <<calls, cacheBD, cacheDeps>>
  /\ LLVMIdle

(***************************************************************************)
(* SpecLLVM: setupLLVM after the installation                              *)
(***************************************************************************)
\* installationInfo.installDir ?? setupDir
installDirOf(info, setupDir) == IF info.installDir = <<>> THEN setupDir ELSE info.installDir

\* await setupLLVMWithoutActivation(..) throws, or returns and activateLLVM runs up
\* to await Promise.all(actPromises): every addEnv and updateAptAlternatives is
\* started with the values computed from the environment read at entry
LLVMAfterWA(t) ==
  /\ tasks[t].kind = "setupLLVM" /\ tasks[t].pc = "setupLLVMWithoutActivation"
  /\ Settled(tasks[t].wait)
  /\ IF tasks[tasks[t].wait].st = "ok"
     THEN /\ tasks' = [tasks EXCEPT ![t] =
                 [@ EXCEPT !.pc = "activateLLVM", !.val = tasks[tasks[t].wait].val,
                           !.act = "pending"]]
          /\ env' = activateLLVMEnv(host, env,
                      installDirOf(tasks[tasks[t].wait].val, tasks[t].key[2]))
     ELSE /\ tasks' = [tasks EXCEPT ![t] =
                 [@ EXCEPT !.st = "err", !.pc = "done", !.err = tasks[tasks[t].wait].err]]
          /\ UNCHANGED env
  /\ UNCHANGED <<host, calls, cacheWA, cacheBD, cacheDeps, actHist, gv, loc, pip,
                 alts, brew, fs, rcs, fin, sv>>

\* Promise.all(actPromises) settles: await activateLLVM(..) returns and
\* installationInfo is returned, or one of the addEnv / updateAptAlternatives
\* promises rejected and the await throws; when one rejected, the registrations
\* of the others may or may not have been made
ActDone(t, ok) ==
  /\ tasks[t].kind = "setupLLVM" /\ tasks[t].pc = "activateLLVM"
  /\ tasks' = [tasks EXCEPT ![t] =
       IF ok
       THEN [@ EXCEPT !.st = "ok", !.pc = "done", !.act = "ok"]
       ELSE [@ EXCEPT !.st = "err", !.pc = "done", !.act = "failed", !.err = {"activateLLVM"}]]
  /\ \E registered \in (IF ok THEN {TRUE} ELSE BOOLEAN) :
       alts' = IF host.ubuntu /\ registered
               THEN alts \cup activateLLVMAlternatives(
                                installDirOf(tasks[t].val, tasks[t].key[2]))
               ELSE alts
  /\ UNCHANGED <<calls, cacheWA, cacheBD, cacheDeps>>
  /\ UNCHANGED <<host, env, actHist, gv, loc, pip, brew, fs, rcs, fin, sv>>

NoGv == [pc |-> "off"]
NoLoc == [pc |-> "off"]
NoPip == [pc |-> "off"]
NoAlts == {}
NoBrew == [pc |-> "off"]
NoFs == [pc |-> "off"]
NoRcs == [pc |-> "off"]
NoFin == [pc |-> "off"]
NoSv == [pc |-> "off"]
\* the variables of the other specifications stay switched off
RestOff == brew = NoBrew /\ fs = NoFs /\ rcs = NoRcs /\ fin = NoFin /\ sv = NoSv

InitLLVM ==
  /\ host \in LLVMHosts
  /\ tasks = <<>>
  /\ calls = <<>>
  /\ cacheWA = <<>>
  /\ cacheBD = <<>>
  /\ cacheDeps = <<>>
  /\ env = EmptyEnv
  /\ actHist = <<>>
  /\ gv = NoGv
  /\ loc = NoLoc
  /\ pip = NoPip
  /\ alts = NoAlts
  /\ RestOff

NextLLVM ==
  \/ \E version \in Versions : CallSetupLLVM(version)
  \/ \E version \in Versions : CallSetupClangTools(version)
  \/ \E version \in Versions : CallSetupClangFormat(version)
  \/ \E t \in 1..Len(tasks), ok \in BOOLEAN : AptDone(t, ok)
  \/ \E t \in 1..Len(tasks), ok \in BOOLEAN : BinDone(t, ok)
  \/ \E t \in 1..Len(tasks), ok \in BOOLEAN : AptPackDone(t, ok)
  \/ \E t \in 1..Len(tasks) : OnlyAfterDeps(t)
  \/ \E t \in 1..Len(tasks) : WAAfterOnly(t)
  \/ \E t \in 1..Len(tasks), ok \in BOOLEAN : GccDone(t, ok)
  \/ \E t \in 1..Len(tasks) : WAAfterDeps(t)
  \/ \E t \in 1..Len(tasks) : LLVMAfterWA(t)
  \/ \E t \in 1..Len(tasks), ok \in BOOLEAN : ActDone(t, ok)

SpecLLVM == InitLLVM /\ [][NextLLVM]_vars

(***************************************************************************)
(* Properties of SpecLLVM                                                  *)
(***************************************************************************)
Tasks == 1..Len(tasks)
OfKind(kind) == {t \in Tasks : tasks[t].kind = kind}
LLVMCalls == OfKind("setupLLVM")
OnlyRuns == OfKind("setupLLVMOnly")

\* every setupLLVM call issued up to call b used the key of b
OneKeyUpTo(b) == \A c \in LLVMCalls : c <= b => tasks[c].key = tasks[b].key

\* the call has seen the memoized promise settle
Observed(t) == tasks[t].pc # "setupLLVMWithoutActivation"

\* C1: every memoized producer is invoked at most once per distinct argument key
\* for the lifetime of the process, whatever the sequence of calls.
C1_ProducerOncePerKey ==
  \A kind \in {"setupLLVMWithoutActivation_raw", "llvmBinaryDeps_raw", "setupLLVMDeps_raw"} :
    \A a, b \in OfKind(kind) : tasks[a].key = tasks[b].key => a = b

\* C2: setupLLVM calls with one key that are issued while the promise of the
\* first is still pending share that promise (one producer invocation), and
\* calls that share a promise observe the same value or the same failure.
C2_ConcurrentCallsShare ==
  \A a, b \in LLVMCalls :
    /\ (a < b /\ OneKeyUpTo(b) /\ tasks[tasks[a].wait].st = "pending")
         => (tasks[b].wait = tasks[a].wait /\ tasks[b].wait # b + 1)
    /\ (tasks[a].wait = tasks[b].wait /\ Observed(a) /\ Observed(b))
         => /\ tasks[a].val = tasks[b].val
            /\ (tasks[a].val = NoInfo => tasks[a].err = tasks[b].err)

\* two calls with one key await the same pending promise
C2_Witness ==
  \E a, b \in LLVMCalls :
    /\ a < b /\ OneKeyUpTo(b) /\ tasks[a].wait = tasks[b].wait
    /\ tasks[tasks[a].wait].st = "pending"
    /\ ~Observed(a) /\ ~Observed(b)

\* C3: once the producer for a key has finished, with success or failure, no
\* later call with that key starts a second attempt.
C3_NoSecondAttempt ==
  [][\A p \in OfKind("setupLLVMWithoutActivation_raw") :
       Settled(p) =>
         \A q \in (1..Len(tasks')) \ Tasks :
           ~(tasks'[q].kind = "setupLLVMWithoutActivation_raw" /\ tasks'[q].key = tasks[p].key)]_vars

\* C4: two setupLLVM calls with the same arguments (no other key requested
\* before) that both return, return the same installation info, and the second
\* starts no installation: setupLLVMOnly and setupLLVMDeps ran for the first only.
C4_TwiceInSequence ==
  \A a, b \in LLVMCalls :
    (a < b /\ OneKeyUpTo(b) /\ tasks[a].st = "ok" /\ tasks[b].st = "ok")
      => /\ tasks[a].val = tasks[b].val
         /\ tasks[a].val.binDir = tasks[b].val.binDir
         /\ tasks[b].wait = tasks[a].wait
         /\ tasks[b].wait # b + 1

\* both calls have returned, the second without a producer of its own
C4_Witness ==
  \E a, b \in LLVMCalls :
    /\ a < b /\ OneKeyUpTo(b) /\ tasks[a].st = "ok" /\ tasks[b].st = "ok"
    /\ tasks[a].wait = a + 1 /\ Len(tasks) = b

\* C5: requests with the same (version, setupDir, arch) run the LLVM installation
\* step setupLLVMOnly at most once, whichever call site issues them.
C5_InstallOncePerKey ==
  \A a, b \in OnlyRuns : tasks[a].key = tasks[b].key => a = b

\* C7: whenever the installation part of setupLLVM succeeded, setupLLVM returns
\* the installation info, also when a step of activateLLVM fails.
C7_ActivationFailureKeepsInstall ==
  \A t \in LLVMCalls :
    (tasks[t].pc = "done" /\ tasks[tasks[t].wait].st = "ok") => tasks[t].st = "ok"

\* C8: setupLLVMApt is attempted first on Ubuntu and, when it succeeds, neither
\* setupBin nor llvmBinaryDeps runs; when it is skipped or fails setupBin is
\* attempted, and when the download strategy (setupBin, then llvmBinaryDeps)
\* succeeds the result is the info of setupBin and no error is surfaced.
C8_StrategyOrder ==
  \A t \in OnlyRuns :
    /\ (tasks[t].apt = "skipped") <=> ~host.ubuntu
    /\ tasks[t].apt = "pending" => (tasks[t].bin = "none" /\ tasks[t].st = "pending")
    /\ tasks[t].apt = "ok"
         => /\ tasks[t].st = "ok" /\ tasks[t].val = AptInfo(majorVersion(tasks[t].key[1]), t)
            /\ tasks[t].bin = "none" /\ tasks[t].wait = 0 /\ tasks[t + 1] = NoTask
    /\ tasks[t].apt \in {"skipped", "failed"} => tasks[t].bin # "none"
    /\ (tasks[t].bin = "ok" /\ tasks[t].pc = "done" /\ tasks[tasks[t].wait].st = "ok")
         => /\ tasks[t].st = "ok" /\ tasks[t].err = {}
            /\ tasks[t].val = BinInfo(tasks[t].key[2], t)
    /\ "setupLLVMApt" \notin tasks[t].err

C8_Witness ==
  \E t \in OnlyRuns :
    tasks[t].apt = "failed" /\ tasks[t].bin = "ok" /\ tasks[t].st = "ok"

\* C9: when both the apt strategy and the archive download fail, the error that
\* setupLLVMOnly surfaces carries both causes.
C9_AggregatedError ==
  \A t \in OnlyRuns :
    (tasks[t].apt = "failed" /\ tasks[t].bin = "failed")
      => tasks[t].err = {"setupLLVMApt", "setupBin"}

(***************************************************************************)
(* SpecActivate: activateLLVM applied repeatedly to an environment         *)
(***************************************************************************)
\* the directories setupLLVM hands to activateLLVM
ActDirs == {SetupDir, <<"/usr/lib/llvm-", "10">>}

\* values LD_LIBRARY_PATH and DYLD_LIBRARY_PATH may have when the process starts
InitPaths == {Unset, << <<"/usr", "lib">> >>}

\* the exports at the end of the setupLLVM of the llvm action: LLVM_PATH and the
\* lib directory put in front of LD_LIBRARY_PATH and DYLD_LIBRARY_PATH
exportLLVMVariables(e, directory) ==
  [e EXCEPT !["LLVM_PATH"] = <<directory>>,
            !["LD_LIBRARY_PATH"] = <<directory \o <<"lib">>>> \o Segments(e["LD_LIBRARY_PATH"]),
            !["DYLD_LIBRARY_PATH"] = <<directory \o <<"lib">>>> \o Segments(e["DYLD_LIBRARY_PATH"])]

ActivateIdle ==
  UNCHANGED <<host, tasks, calls, cacheWA, cacheBD, cacheDeps, gv, loc, pip,
              alts, brew, fs, rcs, fin, sv>>

\* one complete activateLLVM(directory); ok: Promise.all(actPromises) resolved
Activate(directory, ok) ==
  /\ Len(actHist) < MaxActivations
  /\ env' = activateLLVMEnv(host, env, directory)
  /\ actHist' = Append(actHist, [fn |-> "activateLLVM", dir |-> directory, ok |-> ok, after |-> env'])
  /\ ActivateIdle

\* the environment part of setupLLVM(version, directory) of the llvm action
ExportVariables(directory) ==
  /\ Len(actHist) < MaxActivations
  /\ env' = exportLLVMVariables(env, directory)
  /\ actHist' = Append(actHist, [fn |-> "setupLLVM", dir |-> directory, ok |-> TRUE, after |-> env'])
  /\ ActivateIdle

InitActivate ==
  /\ host \in Hosts
  /\ \E ld \in InitPaths, dyld \in InitPaths :
       env = [EmptyEnv EXCEPT !["LD_LIBRARY_PATH"] = ld, !["DYLD_LIBRARY_PATH"] = dyld]
  /\ actHist = <<>>
  /\ tasks = <<>>
  /\ calls = <<>>
  /\ cacheWA = <<>>
  /\ cacheBD = <<>>
  /\ cacheDeps = <<>>
  /\ gv = NoGv
  /\ loc = NoLoc
  /\ pip = NoPip
  /\ alts = NoAlts
  /\ RestOff

NextActivate ==
  \/ \E directory \in ActDirs, ok \in BOOLEAN : Activate(directory, ok)
  \/ \E directory \in ActDirs : ExportVariables(directory)

SpecActivate == InitActivate /\ [][NextActivate]_vars

\* C6: activation is idempotent: applying activateLLVM(d) a second time leaves
\* the environment as the first application left it, and LD_LIBRARY_PATH and
\* DYLD_LIBRARY_PATH hold no duplicate "<d>/lib" segment.
C6_ActivationIdempotent ==
  \A i \in 1..Len(actHist) :
    /\ (/\ i > 1 /\ actHist[i].dir = actHist[i - 1].dir
        /\ actHist[i].fn = actHist[i - 1].fn /\ actHist[i].ok /\ actHist[i - 1].ok)
         => actHist[i].after = actHist[i - 1].after
    /\ actHist[i].ok => \A n \in {"LD_LIBRARY_PATH", "DYLD_LIBRARY_PATH"} :
         LET v == actHist[i].after[n]
         IN \A j, k \in 1..Len(v) :
              (v[j] = actHist[i].dir \o <<"lib">> /\ v[k] = v[j]) => j = k

(***************************************************************************)
(* SpecVersion: getVersion                                                 *)
(*                                                                         *)
(* An optional string is [defined, s]; osVersion is [isNull, v] with v the *)
(* number array.  The keys of a Record<number, string> are the decimal     *)
(* strings of the numbers, modelled as tuples of digits.                   *)
(***************************************************************************)
Undefined == [defined |-> FALSE, s |-> ""]
Str(s) == [defined |-> TRUE, s |-> s]
Null == [isNull |-> TRUE, v |-> <<>>]
Arr(v) == [isNull |-> FALSE, v |-> v]

Tools == {"gcc", "llvm"}
\* the keys an OS-release table may have: "20" and "22"
OsKeys == {<<2, 0>>, <<2, 2>>}
\* the host OS major versions drawn: below, between, at and above the keys
OsMajors == 19..MaxOsMajor
\* the default tables drawn: DefaultUbuntuVersion has at most an entry for gcc
UbuntuTables ==
  {<<>>} \cup { [n \in {"gcc"} |-> t] : t \in UNION { [K -> {"10", "11"}] : K \in SUBSET OsKeys } }
AllDefaults == [n \in Tools |-> IF n = "gcc" THEN "13" ELSE "17"]
DefaultTables == { [n \in D |-> AllDefaults[n]] : D \in SUBSET Tools }

DefaultUbuntuVersion == gv.DefaultUbuntuVersion
DefaultVersions == gv.DefaultVersions

RECURSIVE parseInt(_)
\* Number.parseInt(v, 10) of a string of digits
parseInt(v) ==
  IF v = <<>> THEN 0 ELSE 10 * parseInt(SubSeq(v, 1, Len(v) - 1)) + v[Len(v)]

Max(S) == CHOOSE m \in S : \A x \in S : x <= m
Smallest(S) == CHOOSE m \in S : \A x \in S : m <= x

RECURSIVE sortAscending(_)
\* .sort((a, b) => a - b)
sortAscending(S) == IF S = {} THEN <<>> ELSE <<Smallest(S)>> \o sortAscending(S \ {Smallest(S)})

RECURSIVE sortDescending(_)
\* .sort((a, b) => b - a)
sortDescending(S) == IF S = {} THEN <<>> ELSE <<Max(S)>> \o sortDescending(S \ {Max(S)})

\* a test that forgets the absent version
isVersionTrue(version) == version = Str("true")

isVersionDefault(version) == version = Str("true") \/ version = Undefined

\* toolLinuxVersions[n]: the entry whose key is the decimal string of n
RecordAt(toolLinuxVersions, n) ==
  toolLinuxVersions[CHOOSE k \in DOMAIN toolLinuxVersions : parseInt(k) = n]

getDefaultLinuxVersion(osVersion, toolLinuxVersions) ==
  LET sorted == sortDescending({parseInt(k) : k \in DOMAIN toolLinuxVersions})
      \* osVersion[0] is undefined for an empty array and no comparison with it holds
      Satisfies(v) == Len(osVersion) > 0 /\ osVersion[1] >= v
      \* .find: the first element that satisfies the test, 0 for undefined
      hits == {i \in 1..Len(sorted) : Satisfies(sorted[i])}
      found == IF hits = {} THEN 0 ELSE Smallest(hits)
  IN IF found = 0 THEN "" ELSE RecordAt(toolLinuxVersions, sorted[found])

\* a resolver that lets the tool's default override an explicit request
getVersionDefaultWins(name, version, osVersion) ==
  IF name \in DOMAIN DefaultVersions THEN DefaultVersions[name]
  ELSE IF version.defined /\ version # Str("true") THEN version.s ELSE ""

getVersion(name, version, osVersion) ==
  IF /\ isVersionDefault(version) /\ host.platform = "linux" /\ ~osVersion.isNull
     /\ name \in DOMAIN DefaultUbuntuVersion
  THEN getDefaultLinuxVersion(osVersion.v, DefaultUbuntuVersion[name])
  ELSE IF isVersionDefault(version) /\ name \in DOMAIN DefaultVersions
       THEN DefaultVersions[name]
       ELSE IF version = Str("true") THEN ""
            ELSE IF version.defined THEN version.s ELSE ""

VersionIdle ==
  UNCHANGED <<host, tasks, calls, cacheWA, cacheBD, cacheDeps, env, actHist, loc, pip,
              alts, brew, fs, rcs, fin, sv>>

\* one call getVersion(name, version, osVersion)
GetVersion ==
  /\ gv.pc = "call"
  /\ gv' = [gv EXCEPT !.pc = "done", !.result = getVersion(gv.name, gv.version, gv.osVersion)]
  /\ VersionIdle

\* a second call getVersion(name, version, osVersion) with the same arguments
GetVersionAgain ==
  /\ gv.pc = "done"
  /\ gv' = [gv EXCEPT !.pc = "again", !.again = getVersion(gv.name, gv.version, gv.osVersion)]
  /\ VersionIdle

InitVersion ==
  /\ host \in Hosts
  /\ gv \in [ pc : {"call"}, name : Tools,
               version : {Undefined, Str("true"), Str("12"), Str("")},
               osVersion : {Null, Arr(<<>>)} \cup {Arr(<<m, 4>>) : m \in OsMajors},
               DefaultUbuntuVersion : UbuntuTables, DefaultVersions : DefaultTables,
               result : {"-"}, again : {"-"} ]
  /\ tasks = <<>>
  /\ calls = <<>>
  /\ cacheWA = <<>>
  /\ cacheBD = <<>>
  /\ cacheDeps = <<>>
  /\ env = EmptyEnv
  /\ actHist = <<>>
  /\ loc = NoLoc
  /\ pip = NoPip
  /\ alts = NoAlts
  /\ RestOff

NextVersion ==
  \/ GetVersion
  \/ GetVersionAgain

SpecVersion == InitVersion /\ [][NextVersion]_vars

\* the request takes the Linux OS-release branch with a host major version
LinuxDefault ==
  /\ isVersionDefault(gv.version) /\ host.platform = "linux"
  /\ ~gv.osVersion.isNull /\ Len(gv.osVersion.v) > 0
  /\ gv.name \in DOMAIN gv.DefaultUbuntuVersion

\* C10: a default request on Linux with an OS release and an OS-release table for
\* the tool returns the entry of the largest key <= the host's major version, and
\* the empty string when no key is <= it (the platform-independent default is
\* not consulted).
C10_LargestKeyAtMostHost ==
  (gv.pc # "call" /\ LinuxDefault) =>
    LET table == gv.DefaultUbuntuVersion[gv.name]
        atMost == {k \in DOMAIN table : parseInt(k) <= gv.osVersion.v[1]}
    IN IF atMost = {}
       THEN gv.result = ""
       ELSE \E k \in atMost :
              /\ \A j \in atMost : parseInt(j) <= parseInt(k)
              /\ gv.result = table[k]

\* table {20: "10", 22: "11"} on host major 21 gave "10"
C10_Witness ==
  /\ gv.pc = "done" /\ LinuxDefault
  /\ gv.DefaultUbuntuVersion[gv.name] = [k \in OsKeys |-> IF k = <<2, 0>> THEN "10" ELSE "11"]
  /\ gv.osVersion.v[1] = 21
  /\ gv.name \in DOMAIN gv.DefaultVersions
  /\ gv.result = "10"

\* the request takes the Linux OS-release branch
LinuxBranch ==
  /\ isVersionDefault(gv.version) /\ host.platform = "linux"
  /\ ~gv.osVersion.isNull /\ gv.name \in DOMAIN gv.DefaultUbuntuVersion

\* C11: a default request (undefined or "true") that does not take the Linux
\* OS-release branch returns the tool's entry of DefaultVersions when there is
\* one and the empty string when there is none.
C11_PlatformIndependentDefault ==
  (gv.pc # "call" /\ (gv.version = Undefined \/ gv.version = Str("true")) /\ ~LinuxBranch) =>
    IF gv.name \in DOMAIN gv.DefaultVersions
    THEN gv.result = gv.DefaultVersions[gv.name]
    ELSE gv.result = ""

\* an absent version on a Linux host without an OS release gave the default
C11_Witness ==
  /\ gv.pc = "done" /\ gv.version = Undefined /\ host.platform = "linux"
  /\ gv.osVersion.isNull /\ gv.name = "gcc" /\ "gcc" \in DOMAIN gv.DefaultUbuntuVersion
  /\ "gcc" \in DOMAIN gv.DefaultVersions /\ gv.result = "13"

\* C12: an explicitly requested version (any string but "true") is returned
\* unchanged for every tool, platform, OS release and table; the call changes
\* neither its arguments nor the tables nor the platform, and a second call
\* with the same arguments returns the same result.
C12_ExplicitUnchangedAndPure ==
  /\ []((gv.pc # "call" /\ gv.version.defined /\ gv.version # Str("true"))
          => gv.result = gv.version.s)
  /\ [](gv.pc = "again" => gv.again = gv.result)
  /\ [][/\ host' = host
         /\ gv'.name = gv.name /\ gv'.version = gv.version /\ gv'.osVersion = gv.osVersion
         /\ gv'.DefaultUbuntuVersion = gv.DefaultUbuntuVersion
         /\ gv'.DefaultVersions = gv.DefaultVersions]_vars

\* version "12" for gcc on Ubuntu 22 with both tables was returned twice
C12_Witness ==
  /\ gv.pc = "again" /\ gv.version = Str("12") /\ gv.name = "gcc"
  /\ host.platform = "linux" /\ gv.osVersion = Arr(<<22, 4>>)
  /\ DOMAIN gv.DefaultUbuntuVersion = {"gcc"} /\ "gcc" \in DOMAIN gv.DefaultVersions
  /\ gv.result = "12" /\ gv.again = "12"

(***************************************************************************)
(* SpecUrl: the LLVM version registry and URL locator                      *)
(*                                                                         *)
(* A version string is the sequence of its characters, so that startsWith, *)
(* the regular expressions and the default (code unit) order of sort() are *)
(* computed on characters.  A URL is the tuple of the pieces its template  *)
(* literal joins.                                                          *)
(***************************************************************************)
\* the characters of version strings, in code unit order
Chars == <<"-", ".", "0", "1", "2", "3", "4", "5", "6", "7", "8", "9", "c", "r">>
Code(c) == CHOOSE i \in 1..Len(Chars) : Chars[i] = c
IsDigit(c) == Code(c) \in 3..12
DigitOf(c) == Code(c) - 3

\* the string literal of a number below 100
Dec(n) == IF n < 10 THEN <<Chars[n + 3]>> ELSE <<Chars[(n \div 10) + 3], Chars[(n % 10) + 3]>>
\* the string literal "a.b.c"
Lit(t) == Dec(t[1]) \o <<".">> \o Dec(t[2]) \o <<".">> \o Dec(t[3])

\* the array handed to getVersions
SPECIFIC ==
  << <<3, 5, 0>>, <<3, 5, 1>>, <<3, 5, 2>>, <<3, 6, 0>>, <<3, 6, 1>>, <<3, 6, 2>>,
     <<3, 7, 0>>, <<3, 7, 1>>, <<3, 8, 0>>, <<3, 8, 1>>, <<3, 9, 0>>, <<3, 9, 1>>,
     <<4, 0, 0>>, <<4, 0, 1>>, <<5, 0, 0>>, <<5, 0, 1>>, <<5, 0, 2>>, <<6, 0, 0>>,
     <<6, 0, 1>>, <<7, 0, 0>>, <<7, 0, 1>>, <<7, 1, 0>>, <<8, 0, 0>>, <<8, 0, 1>>,
     <<9, 0, 0>>, <<9, 0, 1>>, <<10, 0, 0>>, <<10, 0, 1>>, <<11, 0, 0>>, <<11, 0, 1>>,
     <<11, 1, 0>>, <<12, 0, 0>>, <<12, 0, 1>>
  >>

\* the match of /^\d+/: the longest prefix of digits
DigitsPrefix(str) ==
  LET ks == {k \in 0..Len(str) : \A i \in 1..k : IsDigit(str[i])}
  IN SubSeq(str, 1, Max(ks))

\* the match of /^\d+\.\d+/ on a string that has one
MajorMinorPrefix(str) ==
  LET a == DigitsPrefix(str)
  IN a \o <<".">> \o DigitsPrefix(SubSeq(str, Len(a) + 2, Len(str)))

\* /^\d+\.\d+\.\d+$/.test(str)
IsSpecific(str) ==
  LET a == DigitsPrefix(str)
      r1 == SubSeq(str, Len(a) + 2, Len(str))
      b == DigitsPrefix(r1)
      r2 == SubSeq(r1, Len(b) + 2, Len(r1))
      c == DigitsPrefix(r2)
  IN /\ a # <<>> /\ b # <<>> /\ c # <<>>
     /\ str = a \o <<".">> \o b \o <<".">> \o c

getVersions(specific) ==
  LET given == {Lit(specific[i]) : i \in 1..Len(specific)}
  IN given \cup {DigitsPrefix(v) : v \in given} \cup {MajorMinorPrefix(v) : v \in given}

VERSIONS == getVersions(SPECIFIC)

startsWith(str, prefix) ==
  Len(prefix) <= Len(str) /\ SubSeq(str, 1, Len(prefix)) = prefix

\* the order of Array.prototype.sort() without a comparator: by code units
StrLess(a, b) ==
  \E k \in 1..Len(b) :
    /\ k <= Len(a) + 1
    /\ SubSeq(a, 1, k - 1) = SubSeq(b, 1, k - 1)
    /\ (k = Len(a) + 1 \/ Code(a[k]) < Code(b[k]))

RECURSIVE sort(_)
sort(S) ==
  IF S = {} THEN <<>>
  ELSE LET least == CHOOSE a \in S : \A b \in S \ {a} : StrLess(a, b)
       IN <<least>> \o sort(S \ {least})

reverse(seq) == [i \in 1..Len(seq) |-> seq[Len(seq) + 1 - i]]

\* an enumeration that forgets to reverse
getSpecificVersionsAscending(version) ==
  sort({v \in VERSIONS : IsSpecific(v) /\ startsWith(v, version)})

getSpecificVersions(version) ==
  reverse(sort({v \in VERSIONS : IsSpecific(v) /\ startsWith(v, version)}))

\* the number a string of digits denotes
NumberOf(digits) == parseInt([i \in 1..Len(digits) |-> DigitOf(digits[i])])

\* semver's reading of "a.b.c" and "a.b.c-pre": the numbers and the prerelease tag
SemVer(str) ==
  LET a == DigitsPrefix(str)
      r1 == SubSeq(str, Len(a) + 2, Len(str))
      b == DigitsPrefix(r1)
      r2 == SubSeq(r1, Len(b) + 2, Len(r1))
      c == DigitsPrefix(r2)
  IN [v |-> <<NumberOf(a), NumberOf(b), NumberOf(c)>>,
      pre |-> SubSeq(r2, Len(c) + 2, Len(r2))]

TripleLess(x, y) ==
  \/ x[1] < y[1]
  \/ x[1] = y[1] /\ x[2] < y[2]
  \/ x[1] = y[1] /\ x[2] = y[2] /\ x[3] < y[3]

\* semver/functions/lte: a prerelease precedes its release
semverLte(a, b) ==
  LET A == SemVer(a)
      B == SemVer(b)
  IN \/ TripleLess(A.v, B.v)
     \/ /\ A.v = B.v
        /\ \/ B.pre = <<>>
           \/ A.pre # <<>> /\ (A.pre = B.pre \/ StrLess(A.pre, B.pre))

getGitHubUrl(version, prefix, suffix) ==
  <<"https://github.com/llvm/llvm-project/releases/download/llvmorg-", version, "/",
    prefix, version>> \o suffix

getReleaseUrl(version, prefix, suffix) ==
  <<"https://releases.llvm.org/", version, "/", prefix, version>> \o suffix

\* a URL function's null
NullUrl == <<>>

DARWIN_MISSING ==
  { Lit(t) : t \in { <<3, 5, 1>>, <<3, 6, 1>>, <<3, 6, 2>>, <<3, 7, 1>>, <<3, 8, 1>>,
                     <<3, 9, 1>>, <<6, 0, 1>>, <<7, 0, 1>>, <<7, 1, 0>>, <<8, 0, 1>>,
                     <<11, 0, 1>>, <<11, 1, 0>>, <<12, 0, 1>> } }

\* a host choice with the comparison turned around
darwinUrlNewerLegacy(version) ==
  LET darwin == IF version = Lit(<<9, 0, 0>>) THEN "-darwin-apple" ELSE "-apple-darwin"
      suffix == <<"-x86_64", darwin, ".tar.xz">>
  IN IF semverLte(Lit(<<9, 0, 1>>), version)
     THEN getReleaseUrl(version, "clang+llvm-", suffix)
     ELSE getGitHubUrl(version, "clang+llvm-", suffix)

\* getDarwinUrl for a version that was released for Darwin
darwinUrl(version) ==
  LET darwin == IF version = Lit(<<9, 0, 0>>) THEN "-darwin-apple" ELSE "-apple-darwin"
      suffix == <<"-x86_64", darwin, ".tar.xz">>
  IN IF semverLte(version, Lit(<<9, 0, 1>>))
     THEN getReleaseUrl(version, "clang+llvm-", suffix)
     ELSE getGitHubUrl(version, "clang+llvm-", suffix)

\* a getDarwinUrl that does not look at DARWIN_MISSING
getDarwinUrlAll(version) == darwinUrl(version)

getDarwinUrl(version) ==
  IF version \in DARWIN_MISSING THEN NullUrl ELSE darwinUrl(version)

\* "12.0.1-rc4"
Rc4 == Lit(<<12, 0, 1>>) \o <<"-", "r", "c", "4">>

UBUNTU_RC == [k \in {Lit(<<12, 0, 1>>)} |-> Rc4]

\* the entries of UBUNTU whose key is a release
UbuntuReleases ==
  << <<<<3, 5, 0>>, "-ubuntu-14.04">>, <<<<3, 5, 1>>, "">>, <<<<3, 5, 2>>, "-ubuntu-14.04">>,
     <<<<3, 6, 0>>, "-ubuntu-14.04">>, <<<<3, 6, 1>>, "-ubuntu-14.04">>,
     <<<<3, 6, 2>>, "-ubuntu-14.04">>, <<<<3, 7, 0>>, "-ubuntu-14.04">>,
     <<<<3, 7, 1>>, "-ubuntu-14.04">>, <<<<3, 8, 0>>, "-ubuntu-16.04">>,
     <<<<3, 8, 1>>, "-ubuntu-16.04">>, <<<<3, 9, 0>>, "-ubuntu-16.04">>,
     <<<<3, 9, 1>>, "-ubuntu-16.04">>, <<<<4, 0, 0>>, "-ubuntu-16.04">>,
     <<<<5, 0, 0>>, "-ubuntu16.04">>, <<<<5, 0, 1>>, "-ubuntu-16.04">>,
     <<<<5, 0, 2>>, "-ubuntu-16.04">>, <<<<6, 0, 0>>, "-ubuntu-16.04">>,
     <<<<6, 0, 1>>, "-ubuntu-16.04">>, <<<<7, 0, 0>>, "-ubuntu-16.04">>,
     <<<<7, 0, 1>>, "-ubuntu-18.04">>, <<<<7, 1, 0>>, "-ubuntu-14.04">>,
     <<<<8, 0, 0>>, "-ubuntu-18.04">>, <<<<9, 0, 0>>, "-ubuntu-18.04">>,
     <<<<9, 0, 1>>, "-ubuntu-16.04">>, <<<<10, 0, 0>>, "-ubuntu-18.04">>,
     <<<<10, 0, 1>>, "-ubuntu-16.04">>, <<<<11, 0, 0>>, "-ubuntu-20.04">>,
     <<<<11, 0, 1>>, "-ubuntu-16.04">>, <<<<11, 1, 0>>, "-ubuntu-16.04">>,
     <<<<12, 0, 0>>, "-ubuntu-20.04">>
  >>

UBUNTU ==
  [ k \in {Lit(UbuntuReleases[i][1]) : i \in 1..Len(UbuntuReleases)} \cup {Rc4} |->
      IF k = Rc4 THEN "-ubuntu-21.04"
      ELSE UbuntuReleases[CHOOSE i \in 1..Len(UbuntuReleases) : Lit(UbuntuReleases[i][1]) = k][2] ]

MAX_UBUNTU == Rc4

\* version.includes("ubuntu")
includesUbuntu(version) ==
  \E i \in 1..Len(version) :
    i + 5 <= Len(version) /\ SubSeq(version, i, i + 5) = <<"u", "b", "u", "n", "t", "u">>

\* a getLinuxUrl without the release-candidate substitution
getLinuxUrlNoRc(versionGiven) ==
  LET version == versionGiven
      ubuntu == IF includesUbuntu(version) THEN version
                ELSE IF version # <<>> /\ version \in DOMAIN UBUNTU THEN UBUNTU[version]
                     ELSE UBUNTU[MAX_UBUNTU]
      suffix == IF version = Lit(<<5, 0, 0>>)
                THEN <<"-linux-x86_64", ubuntu, ".tar.xz">>
                ELSE <<"-x86_64-linux-gnu", ubuntu, ".tar.xz">>
  IN IF semverLte(version, Lit(<<9, 0, 1>>))
     THEN getReleaseUrl(version, "clang+llvm-", suffix)
     ELSE getGitHubUrl(version, "clang+llvm-", suffix)

getLinuxUrl(versionGiven) ==
  LET version == IF versionGiven \in DOMAIN UBUNTU_RC THEN UBUNTU_RC[versionGiven]
                 ELSE versionGiven
      ubuntu == IF includesUbuntu(version) THEN version
                ELSE IF version # <<>> /\ version \in DOMAIN UBUNTU THEN UBUNTU[version]
                     ELSE UBUNTU[MAX_UBUNTU]
      suffix == IF version = Lit(<<5, 0, 0>>)
                THEN <<"-linux-x86_64", ubuntu, ".tar.xz">>
                ELSE <<"-x86_64-linux-gnu", ubuntu, ".tar.xz">>
  IN IF semverLte(version, Lit(<<9, 0, 1>>))
     THEN getReleaseUrl(version, "clang+llvm-", suffix)
     ELSE getGitHubUrl(version, "clang+llvm-", suffix)

WIN32_MISSING == {Lit(<<10, 0, 1>>)}

\* getWin32Url: the suffix of the file name
win32Suffix(version) ==
  IF semverLte(version, Lit(<<3, 7, 0>>)) THEN <<"-win32.exe">> ELSE <<"-win64.exe">>

\* getWin32Url: olderThan9_1
olderThan9_1(version) == semverLte(version, Lit(<<9, 0, 1>>))

\* the platforms handed to getSpecificVersionAndUrl
Platforms == {"darwin", "linux", "win32", "freebsd"}

\* requested versions outside the registry: "1", "13", "9.0.2" and ""
Unregistered == {<<"1">>, <<"1", "3">>, Lit(<<9, 0, 2>>), <<>>}

\* new Error(`Unsupported target! (platform='${platform}', version='${version}')`)
UnsupportedTarget(platform, version) ==
  <<"Unsupported target! (platform='", platform, "', version='", version, "')">>

UrlIdle ==
  UNCHANGED <<host, tasks, calls, cacheWA, cacheBD, cacheDeps, env, actHist, gv, pip,
              alts, brew, fs, rcs, fin, sv>>

\* a getSpecificVersionAndUrl without the registry test
EnumerateUnchecked ==
  /\ loc.pc = "start"
  /\ loc' = [loc EXCEPT !.pc = "loop", !.cands = getSpecificVersions(loc.version)]
  /\ UrlIdle

\* getSpecificVersionAndUrl up to the loop: the registry test and the enumeration
Enumerate ==
  /\ loc.pc = "start"
  /\ loc' = IF loc.version \notin VERSIONS
            THEN [loc EXCEPT !.pc = "err", !.err = UnsupportedTarget(loc.platform, loc.version)]
            ELSE [loc EXCEPT !.pc = "loop", !.cands = getSpecificVersions(loc.version)]
  /\ UrlIdle

\* the loop body up to the first await: getUrl(platform, specificVersion)
GetUrl ==
  /\ loc.pc = "loop" /\ loc.i <= Len(loc.cands)
  /\ LET c == loc.cands[loc.i]
         null == [loc EXCEPT !.i = @ + 1]
         built(url, pc) ==
           [loc EXCEPT !.pc = pc, !.url = url, !.built = Append(@, [at |-> loc.i, cand |-> c, url |-> url])]
     IN loc' =
          CASE loc.platform = "darwin" ->
                 IF getDarwinUrl(c) = NullUrl THEN null ELSE built(getDarwinUrl(c), "probe")
            [] loc.platform = "linux" -> built(getLinuxUrl(c), "probe")
            [] loc.platform = "win32" ->
                 IF c \in WIN32_MISSING THEN null
                 ELSE IF olderThan9_1(c)
                      THEN built(getReleaseUrl(c, "LLVM-", win32Suffix(c)), "isValidUrl")
                      ELSE built(getGitHubUrl(c, "LLVM-", win32Suffix(c)), "probe")
            [] OTHER -> null
  /\ UrlIdle

\* a getWin32Url that keeps the releases.llvm.org URL whatever the answer
Win32NoFallback(valid) ==
  /\ loc.pc = "isValidUrl"
  /\ loc' = [loc EXCEPT !.pc = "probe",
               !.probes = Append(@, [at |-> loc.i, cand |-> loc.cands[loc.i], url |-> loc.url,
                                     ok |-> valid, pre |-> TRUE])]
  /\ UrlIdle

\* getWin32Url: await isValidUrl(url) answers for the releases.llvm.org URL
Win32Fallback(valid) ==
  /\ loc.pc = "isValidUrl"
  /\ LET c == loc.cands[loc.i]
         github == getGitHubUrl(c, "LLVM-", win32Suffix(c))
         probed == Append(loc.probes, [at |-> loc.i, cand |-> c, url |-> loc.url, ok |-> valid, pre |-> TRUE])
     IN loc' = IF valid
               THEN [loc EXCEPT !.pc = "probe", !.probes = probed]
               ELSE [loc EXCEPT !.pc = "probe", !.probes = probed, !.url = github,
                                !.built = Append(@, [at |-> loc.i, cand |-> c, url |-> github])]
  /\ UrlIdle

\* a loop that returns the candidate whatever the probe answers
ProbeUrlIgnored(valid) ==
  /\ loc.pc = "probe"
  /\ loc' = [loc EXCEPT !.pc = "done", !.result = <<loc.cands[loc.i], loc.url>>,
               !.probes = Append(@, [at |-> loc.i, cand |-> loc.cands[loc.i], url |-> loc.url,
                                     ok |-> valid, pre |-> FALSE])]
  /\ UrlIdle

\* the loop's await isValidUrl(url) answers: return [specificVersion, url] or go on
ProbeUrl(valid) ==
  /\ loc.pc = "probe"
  /\ LET c == loc.cands[loc.i]
         probed == Append(loc.probes, [at |-> loc.i, cand |-> c, url |-> loc.url, ok |-> valid, pre |-> FALSE])
     IN loc' = IF valid
               THEN [loc EXCEPT !.pc = "done", !.probes = probed, !.result = <<c, loc.url>>]
               ELSE [loc EXCEPT !.pc = "loop", !.probes = probed, !.i = @ + 1]
  /\ UrlIdle

\* the loop ends without a return: the final throw
Exhausted ==
  /\ loc.pc = "loop" /\ loc.i > Len(loc.cands)
  /\ loc' = [loc EXCEPT !.pc = "err", !.err = UnsupportedTarget(loc.platform, loc.version)]
  /\ UrlIdle

InitUrl ==
  /\ host \in {h \in Hosts : h.ubuntu}
  /\ loc \in [ pc : {"start"}, platform : Platforms, version : VERSIONS \cup Unregistered,
                cands : {<<>>}, i : {1}, url : {NullUrl}, built : {<<>>}, probes : {<<>>},
                result : {<<>>}, err : {<<>>} ]
  /\ tasks = <<>>
  /\ calls = <<>>
  /\ cacheWA = <<>>
  /\ cacheBD = <<>>
  /\ cacheDeps = <<>>
  /\ env = EmptyEnv
  /\ actHist = <<>>
  /\ gv = NoGv
  /\ pip = NoPip
  /\ alts = NoAlts
  /\ RestOff

NextUrl ==
  \/ Enumerate
  \/ GetUrl
  \/ \E valid \in BOOLEAN : Win32Fallback(valid)
  \/ \E valid \in BOOLEAN : ProbeUrl(valid)
  \/ Exhausted

SpecUrl == InitUrl /\ [][NextUrl]_vars

(***************************************************************************)
(* Properties of SpecUrl                                                   *)
(***************************************************************************)
\* the registered specific versions
Specific == {Lit(SPECIFIC[i]) : i \in 1..Len(SPECIFIC)}

RECURSIVE Numbers(_)
\* the numbers of "a", "a.b" or "a.b.c"
Numbers(str) ==
  IF str = <<>> THEN <<>>
  ELSE <<NumberOf(DigitsPrefix(str))>>
         \o Numbers(SubSeq(str, Len(DigitsPrefix(str)) + 2, Len(str)))

\* the numbers of every registered version and alias
Release == [v \in VERSIONS |-> Numbers(v)]

\* the candidate's release is the numbers of the alias, followed by anything
BelongsTo(cand, alias) ==
  \A k \in 1..Len(Release[alias]) : Release[cand][k] = Release[alias][k]

Enumerated == loc.pc # "start" /\ loc.version \in VERSIONS
Candidates == {loc.cands[k] : k \in 1..Len(loc.cands)}

\* C13: for every alias of the registry the enumeration holds exactly the
\* registered specific versions that start with the alias, each once, most
\* recent release first, and every one of them has the alias's major (and
\* minor, and patch, when given).
C13_EnumerationDescending ==
  Enumerated =>
    /\ Candidates = {v \in Specific : startsWith(v, loc.version)}
    /\ Cardinality(Candidates) = Len(loc.cands)
    /\ \A j, k \in 1..Len(loc.cands) :
         j < k => TripleLess(Release[loc.cands[k]], Release[loc.cands[j]])
    /\ Candidates = {v \in Specific : BelongsTo(v, loc.version)}

\* "9" enumerated 9.0.1, then 9.0.0
C13_Witness ==
  /\ Enumerated /\ loc.version = <<"9">>
  /\ loc.cands = <<Lit(<<9, 0, 1>>), Lit(<<9, 0, 0>>)>>

\* the candidates walked before the current one
Before(j) == loc.i > j
FinalProbes(j) == {k \in 1..Len(loc.probes) : loc.probes[k].at = j /\ ~loc.probes[k].pre}

\* C14: the candidates are probed in enumeration order; a returned pair is the
\* current candidate with the URL whose probe, the last one made, answered yes;
\* no later candidate was probed or had a URL built; every earlier candidate had
\* no URL or a final probe that answered no; without a confirmed probe the call
\* does not return, and a failure of a registered version comes only after the
\* last candidate.
C14_FirstConfirmedCandidate ==
  /\ \A k \in 1..Len(loc.probes) :
       /\ loc.probes[k].cand = loc.cands[loc.probes[k].at]
       /\ loc.probes[k].at <= loc.i
       /\ k > 1 => loc.probes[k - 1].at <= loc.probes[k].at
  /\ \A k \in 1..Len(loc.built) :
       loc.built[k].cand = loc.cands[loc.built[k].at] /\ loc.built[k].at <= loc.i
  /\ \A j \in 1..Len(loc.cands) :
       Before(j) =>
         \/ \A k \in 1..Len(loc.built) : loc.built[k].at # j
         \/ /\ FinalProbes(j) # {}
            /\ \A k \in FinalProbes(j) : ~loc.probes[k].ok
  /\ loc.pc = "done" =>
       /\ loc.result = <<loc.cands[loc.i], loc.url>>
       /\ loc.probes # <<>>
       /\ loc.probes[Len(loc.probes)] =
            [at |-> loc.i, cand |-> loc.result[1], url |-> loc.result[2],
             ok |-> TRUE, pre |-> FALSE]
  /\ loc.pc # "done" =>
       /\ loc.result = <<>>
       /\ \A k \in 1..Len(loc.probes) : loc.probes[k].pre \/ ~loc.probes[k].ok
  /\ (loc.pc = "err" /\ loc.version \in VERSIONS) => loc.i > Len(loc.cands)
  /\ loc.pc \in {"start", "loop", "isValidUrl", "probe", "done", "err"}
  /\ loc.pc \in {"isValidUrl", "probe", "done"} => loc.i <= Len(loc.cands)

\* "11" on linux: 11.1.0 unconfirmed, 11.0.1 confirmed and returned, 11.0.0 untouched
C14_Witness ==
  /\ loc.pc = "done" /\ loc.platform = "linux" /\ loc.version = <<"1", "1">>
  /\ loc.result[1] = Lit(<<11, 0, 1>>) /\ Len(loc.probes) = 2
  /\ loc.probes[1].cand = Lit(<<11, 1, 0>>) /\ ~loc.probes[1].ok

MissingFor(platform) ==
  IF platform = "darwin" THEN DARWIN_MISSING
  ELSE IF platform = "win32" THEN WIN32_MISSING ELSE {}

\* C15: a version of the platform's missing set is never returned for that
\* platform, whatever the probes answer and also when it is requested exactly:
\* no URL is built for it and none is probed.
C15_MissingNeverReturned ==
  /\ \A k \in 1..Len(loc.built) : loc.built[k].cand \notin MissingFor(loc.platform)
  /\ \A k \in 1..Len(loc.probes) : loc.probes[k].cand \notin MissingFor(loc.platform)
  /\ loc.pc = "done" => loc.result[1] \notin MissingFor(loc.platform)
  /\ (loc.version \in MissingFor(loc.platform) /\ loc.pc # "start")
       => (loc.pc \in {"loop", "err"} /\ loc.probes = <<>>)

\* "12" on darwin: 12.0.1 is skipped unprobed and 12.0.0 is returned
C15_Witness ==
  /\ loc.pc = "done" /\ loc.platform = "darwin" /\ loc.version = <<"1", "2">>
  /\ loc.cands[1] = Lit(<<12, 0, 1>>) /\ loc.result[1] = Lit(<<12, 0, 0>>)
  /\ Len(loc.probes) = 1

KnownPlatforms == {"darwin", "linux", "win32"}

\* C16: a failure is the error "Unsupported target!" with the platform and the
\* version; a version outside the registry fails at once, with no URL built or
\* probed; another platform than darwin, linux and win32 never returns and
\* probes nothing; a failure holds no pair and follows no confirmed probe.
C16_UnsupportedTarget ==
  /\ loc.pc = "err" =>
       /\ loc.err = UnsupportedTarget(loc.platform, loc.version)
       /\ loc.result = <<>>
       /\ \A k \in 1..Len(loc.probes) : loc.probes[k].pre \/ ~loc.probes[k].ok
  /\ loc.pc # "err" => loc.err = <<>>
  /\ (loc.version \notin VERSIONS /\ loc.pc # "start")
       => (loc.pc = "err" /\ loc.probes = <<>> /\ loc.built = <<>>)
  /\ loc.platform \notin KnownPlatforms
       => (loc.pc # "done" /\ loc.probes = <<>> /\ loc.built = <<>>)
  /\ loc.pc = "done" => (loc.version \in VERSIONS /\ loc.platform \in KnownPlatforms)

\* "3.5" on win32 failed after the final probes of 3.5.2, 3.5.1 and 3.5.0 answered no
C16_Witness ==
  /\ loc.pc = "err" /\ loc.platform = "win32" /\ loc.version = <<"3", ".", "5">>
  /\ loc.i = 4 /\ Cardinality(FinalProbes(1) \cup FinalProbes(2) \cup FinalProbes(3)) = Len(loc.cands)

ReleasesHost == "https://releases.llvm.org/"
GitHubHost == "https://github.com/llvm/llvm-project/releases/download/llvmorg-"

\* C17: on linux the URL of a candidate carries the tag that UBUNTU records for
\* it ("" for 3.5.1), the tag of MAX_UBUNTU when it has no entry (4.0.1, 8.0.1),
\* and for 12.0.1 it is built from 12.0.1-rc4; the version returned is the
\* candidate itself, a final release.
C17_LinuxTagAndCandidate ==
  loc.platform = "linux" =>
    /\ \A k \in 1..Len(loc.built) :
         LET c == loc.built[k].cand
             url == loc.built[k].url
             v == IF c = Lit(<<12, 0, 1>>) THEN Rc4 ELSE c
         IN /\ url[2] = v /\ url[5] = v
            /\ url[7] = IF v \in DOMAIN UBUNTU THEN UBUNTU[v] ELSE UBUNTU[MAX_UBUNTU]
            /\ c \in {Lit(<<4, 0, 1>>), Lit(<<8, 0, 1>>), Lit(<<12, 0, 1>>)}
                 => url[7] = "-ubuntu-21.04"
            /\ c = Lit(<<3, 5, 1>>) => url[7] = ""
            /\ c = Lit(<<12, 0, 0>>) => url[7] = "-ubuntu-20.04"
    /\ loc.pc = "done" =>
         /\ loc.result[1] = loc.cands[loc.i]
         /\ loc.result[1] \in Specific

\* "12.0.1" on linux returned 12.0.1 with the URL of 12.0.1-rc4
C17_Witness ==
  /\ loc.pc = "done" /\ loc.platform = "linux"
  /\ loc.result[1] = Lit(<<12, 0, 1>>) /\ loc.result[2][2] = Rc4
  /\ loc.result[2][7] = "-ubuntu-21.04"

\* the release is 9.0.1 or older
AtMost901(c) == ~TripleLess(<<9, 0, 1>>, Release[c])

\* C18: on darwin and linux a candidate at or below 9.0.1 gets a URL on
\* releases.llvm.org and a candidate above it (12.0.1-rc4 for 12.0.1 included)
\* a URL on the GitHub release host.
C18_HostByThreshold ==
  loc.platform \in {"darwin", "linux"} =>
    \A k \in 1..Len(loc.built) :
      loc.built[k].url[1] = IF AtMost901(loc.built[k].cand) THEN ReleasesHost ELSE GitHubHost

\* "9" on darwin: 9.0.1 was built on releases.llvm.org
C18_Witness ==
  /\ loc.platform = "darwin" /\ loc.version = <<"9">> /\ Len(loc.built) >= 1
  /\ loc.built[1].cand = Lit(<<9, 0, 1>>) /\ loc.built[1].url[1] = ReleasesHost

\* C19: on win32 every URL is "LLVM-" version suffix, with -win32.exe at or below
\* 3.7.0 and -win64.exe above; a candidate at or below 9.0.1 has its
\* releases.llvm.org URL probed first and the URL that goes on is the GitHub one
\* exactly when that probe answered no; a candidate above 9.0.1 goes on with
\* the GitHub URL and no preliminary probe.
C19_Win32SuffixAndFallback ==
  loc.platform = "win32" =>
    /\ \A k \in 1..Len(loc.built) :
         LET url == loc.built[k].url
         IN /\ Len(url) = 6 /\ url[4] = "LLVM-"
            /\ url[2] = loc.built[k].cand /\ url[5] = loc.built[k].cand
            /\ url[6] = IF TripleLess(<<3, 7, 0>>, Release[loc.built[k].cand])
                        THEN "-win64.exe" ELSE "-win32.exe"
    /\ \A k \in 1..Len(loc.probes) :
         LET p == loc.probes[k]
         IN IF p.pre
            THEN AtMost901(p.cand) /\ p.url[1] = ReleasesHost
            ELSE IF AtMost901(p.cand)
                 THEN /\ k > 1 /\ loc.probes[k - 1].pre /\ loc.probes[k - 1].at = p.at
                      /\ p.url[1] = IF loc.probes[k - 1].ok THEN ReleasesHost ELSE GitHubHost
                      /\ SubSeq(p.url, 2, 6) = SubSeq(loc.probes[k - 1].url, 2, 6)
                 ELSE /\ p.url[1] = GitHubHost
                      /\ k > 1 => loc.probes[k - 1].at # p.at

\* "3.7.0" on win32: the releases.llvm.org copy is missing, the GitHub one is returned
C19_Witness ==
  /\ loc.pc = "done" /\ loc.platform = "win32" /\ loc.version = Lit(<<3, 7, 0>>)
  /\ Len(loc.probes) = 2 /\ loc.probes[1].pre /\ ~loc.probes[1].ok
  /\ loc.result[2][1] = GitHubHost /\ loc.result[2][6] = "-win32.exe"

(***************************************************************************)
(* SpecPip: setupPipPackWithPython                                         *)
(*                                                                         *)
(* An option is "undefined", "true" or "false"; the destructuring defaults *)
(* apply to "undefined".                                                   *)
(***************************************************************************)
Options == {"undefined", "true", "false"}

\* const { usePipx = true, user = true, upgrade = false, isLibrary = false } = options
OptionOr(option, default) == IF option = "undefined" THEN default ELSE option = "true"
usePipx == OptionOr(pip.options.usePipx, TRUE)
user == OptionOr(pip.options.user, TRUE)
upgrade == OptionOr(pip.options.upgrade, FALSE)
isLibrary == OptionOr(pip.options.isLibrary, FALSE)

\* a selection that forgets the library test
NeedsHasPipxForLibrary == usePipx

\* usePipx && !isLibrary: whether hasPipx(givenPython) is awaited at all
NeedsHasPipx == usePipx /\ ~isLibrary

\* the arguments of execaSync(givenPython, [...])
pipArguments(isPipx, version) ==
  LET pipName == IF isPipx THEN "pipx" ELSE "pip"
      nameAndVersion == IF version.defined /\ version.s # ""
                        THEN <<"name", "==", version.s>> ELSE <<"name">>
      upgradeFlag == IF upgrade
                     THEN (IF isPipx THEN <<"upgrade">> ELSE <<"install", "--upgrade">>)
                     ELSE <<"install">>
      userFlag == IF ~isPipx /\ user THEN <<"--user">> ELSE <<>>
  IN <<"-m", pipName>> \o upgradeFlag \o userFlag \o <<nameAndVersion>>

\* setupPipPackSystem(name): the package manager it calls, "null" when it returns null
setupPipPackSystem ==
  IF host.platform = "linux"
  THEN IF pip.isArch THEN "pacman"
       ELSE IF pip.hasDnf THEN "dnf"
            ELSE IF host.ubuntu THEN "apt" ELSE "null"
  ELSE "null"

PipIdle ==
  UNCHANGED <<host, tasks, calls, cacheWA, cacheBD, cacheDeps, env, actHist, gv, loc,
              alts, brew, fs, rcs, fin, sv>>

\* setupPipPackWithPython up to its first await
PipStart ==
  /\ pip.pc = "start"
  /\ pip' = IF NeedsHasPipx
            THEN [pip EXCEPT !.pc = "hasPipx"]
            ELSE [pip EXCEPT !.pc = "pipHasPackage", !.isPipx = FALSE]
  /\ PipIdle

\* await hasPipx(givenPython) answers
HasPipx ==
  /\ pip.pc = "hasPipx"
  /\ pip' = [pip EXCEPT !.pc = "pipHasPackage", !.isPipx = pip.pipxAvailable,
                        !.askedPipx = TRUE]
  /\ PipIdle

\* a setupPipPackWithPython that tries the install whatever pipHasPackage answers
PipHasPackageIgnored(found) ==
  /\ pip.pc = "pipHasPackage"
  /\ pip' = [pip EXCEPT !.pc = "install", !.hasPackage = found]
  /\ PipIdle

\* await pipHasPackage(givenPython, name) answers
PipHasPackage(found) ==
  /\ pip.pc = "pipHasPackage"
  /\ pip' = [pip EXCEPT !.pc = IF found THEN "install" ELSE "system", !.hasPackage = found]
  /\ PipIdle

\* the outcomes of the try block: it completes, a step of the pipx directories
\* (getPipxHome, mkdirp, addPath) throws, or execaSync throws
Outcomes == {"ok", "pipxDirs", "execaSync"}

\* the try block: the pipx directories when isPipx && user, then execaSync
PipInstall(outcome) ==
  /\ pip.pc = "install"
  /\ outcome = "pipxDirs" => (pip.isPipx /\ user)
  /\ pip' = [pip EXCEPT !.pc = IF outcome = "ok" THEN "binDir" ELSE "system",
                        !.pipxHome = pip.isPipx /\ user,
                        !.cmd = IF outcome = "pipxDirs" THEN @
                                ELSE pipArguments(pip.isPipx, pip.version),
                        !.failed = outcome # "ok"]
  /\ PipIdle

\* setupPipPackSystem(name) is called: it returns null, and the error is thrown,
\* or the promise of a package manager
PipSystem ==
  /\ pip.pc = "system"
  /\ pip' = IF setupPipPackSystem = "null"
            THEN [pip EXCEPT !.pc = "err", !.system = "null",
                    !.err = IF pip.failed THEN "Failed to install via pip"
                            ELSE "not found via pip or the system package manager"]
            ELSE [pip EXCEPT !.pc = "systemAwait", !.system = setupPipPackSystem]
  /\ PipIdle

\* the promise of the package manager settles
PipSystemDone(ok) ==
  /\ pip.pc = "systemAwait"
  /\ pip' = IF ok THEN [pip EXCEPT !.pc = "binDir"]
            ELSE [pip EXCEPT !.pc = "err", !.err = pip.system]
  /\ PipIdle

\* addPythonBaseExecPrefix, findBinDir, addPath(binDir) and the return
PipBinDir ==
  /\ pip.pc = "binDir"
  /\ pip' = [pip EXCEPT !.pc = "done", !.binDir = TRUE]
  /\ PipIdle

InitPip ==
  /\ host \in Hosts
  /\ pip \in [ pc : {"start"},
                options : [usePipx : Options, isLibrary : Options,
                           user : {"undefined", "false"}, upgrade : {"undefined", "true"}],
                version : {Undefined, Str(""), Str("1.2")},
                pipxAvailable : BOOLEAN, isArch : BOOLEAN, hasDnf : BOOLEAN,
                isPipx : {FALSE}, askedPipx : {FALSE}, hasPackage : {FALSE},
                pipxHome : {FALSE}, cmd : {<<>>}, failed : {FALSE}, system : {"none"},
                err : {""}, binDir : {FALSE} ]
  /\ tasks = <<>>
  /\ calls = <<>>
  /\ cacheWA = <<>>
  /\ cacheBD = <<>>
  /\ cacheDeps = <<>>
  /\ env = EmptyEnv
  /\ actHist = <<>>
  /\ gv = NoGv
  /\ loc = NoLoc
  /\ alts = NoAlts
  /\ RestOff

NextPip ==
  \/ PipStart
  \/ HasPipx
  \/ \E found \in BOOLEAN : PipHasPackage(found)
  \/ \E outcome \in Outcomes : PipInstall(outcome)
  \/ PipSystem
  \/ \E ok \in BOOLEAN : PipSystemDone(ok)
  \/ PipBinDir

SpecPip == InitPip /\ [][NextPip]_vars

\* C20: the installer run is pipx exactly when usePipx holds (it defaults to
\* true), the package is not a library and pipx is available for the given
\* Python, and pip otherwise; a library is never installed with pipx.
C20_PipxSelection ==
  /\ pip.pc \notin {"start", "hasPipx"} =>
       (pip.isPipx <=>
          /\ pip.options.usePipx # "false"
          /\ pip.options.isLibrary # "true"
          /\ pip.pipxAvailable)
  /\ pip.cmd # <<>> =>
       /\ pip.cmd[2] = IF /\ pip.options.usePipx # "false"
                          /\ pip.options.isLibrary # "true"
                          /\ pip.pipxAvailable
                       THEN "pipx" ELSE "pip"
       /\ pip.options.isLibrary = "true" => pip.cmd[2] = "pip"

\* usePipx left at its default, not a library, pipx available: pipx installed it
C20_Witness ==
  /\ pip.pc = "done" /\ pip.options.usePipx = "undefined" /\ pip.options.isLibrary = "false"
  /\ pip.pipxAvailable /\ pip.cmd # <<>> /\ pip.cmd[2] = "pipx" /\ ~pip.failed

NativeManagers == {"pacman", "dnf", "apt"}
PipAsked == pip.pc \notin {"start", "hasPipx", "pipHasPackage"}

\* C21: when pipHasPackage does not find the package nothing is installed with
\* pip or pipx and setupPipPackSystem is called; when the try block of the
\* install throws, setupPipPackSystem is called next; it stands for pacman, dnf
\* or apt on Linux and is null on any other host, and then the call throws;
\* a bin directory is returned only after the install or the native manager
\* succeeded.
C21_NativeFallback ==
  /\ (PipAsked /\ ~pip.hasPackage) =>
       /\ pip.cmd = <<>> /\ ~pip.failed
       /\ pip.pc # "system" => pip.system # "none"
  /\ pip.failed =>
       /\ pip.hasPackage /\ pip.pc \in {"system", "systemAwait", "err", "binDir", "done"}
       /\ pip.pc # "system" => pip.system # "none"
  /\ pip.system # "none" => (~pip.hasPackage \/ pip.failed)
  /\ pip.system = "null" =>
       /\ pip.pc = "err"
       /\ host.platform # "linux" \/ (~pip.isArch /\ ~pip.hasDnf /\ ~host.ubuntu)
  /\ pip.system \in NativeManagers =>
       /\ host.platform = "linux"
       /\ pip.isArch \/ pip.hasDnf \/ host.ubuntu
  /\ pip.pc = "err" => (pip.system # "none" /\ ~pip.binDir)
  /\ pip.binDir => pip.pc = "done"
  /\ pip.pc \in {"binDir", "done"} =>
       \/ pip.hasPackage /\ ~pip.failed /\ pip.cmd # <<>> /\ pip.system = "none"
       \/ pip.system \in NativeManagers

\* the pip install threw on Ubuntu, apt installed the package, the bin directory is returned
C21_Witness ==
  /\ pip.pc = "done" /\ pip.binDir /\ pip.hasPackage /\ pip.failed /\ pip.cmd # <<>>
  /\ pip.system = "apt" /\ host.ubuntu

\* the clang of the installation that the setupLLVM call t activated
ClangOf(t, exe) == installDirOf(tasks[t].val, tasks[t].key[2]) \o <<"bin", exe>>
Activated == {t \in LLVMCalls : tasks[t].act # "none"}
Generic == [cc |-> "clang", cxx |-> "clang++"]

\* C22: activateLLVM of a setupLLVM call starts only after the awaited
\* setupLLVMWithoutActivation, its setupLLVMOnly and its setupLLVMDeps have
\* completed; gcc is registered for cc and cxx with priority 40 only, and once
\* setupLLVM has returned on Ubuntu its clang is registered for cc and cxx with
\* priority 60, which no other registration of cc and cxx exceeds, and every
\* registration of that priority is an activated clang.
C22_ActivationAfterInstall ==
  /\ \A t \in Activated :
       LET w == tasks[t].wait
       IN /\ tasks[w].kind = "setupLLVMWithoutActivation_raw" /\ tasks[w].st = "ok"
          /\ tasks[w + 1].kind = "setupLLVMOnly" /\ tasks[w + 1].st = "ok"
          /\ tasks[tasks[w].wait].kind = "setupLLVMDeps_raw"
          /\ tasks[tasks[w].wait].st = "ok"
          /\ host.ubuntu => setupGccAlternatives(40) \subseteq alts
  /\ \A a \in alts : a.path[Len(a.path)] \in {"gcc", "g++"} => a.priority = 40
  /\ \A t \in LLVMCalls : (tasks[t].st = "ok" /\ host.ubuntu) =>
       \A n \in DOMAIN Generic :
         /\ updateAptAlternatives(n, ClangOf(t, Generic[n]), 60) \in alts
         /\ \A a \in alts : a.name = n =>
              /\ a.priority <= 60
              /\ a.priority = 60 => \E u \in Activated : a.path = ClangOf(u, Generic[n])

\* two setupLLVM calls for different versions returned on Ubuntu: gcc and both
\* clangs are registered for cc
C22_Witness ==
  /\ host.ubuntu
  /\ \E t, u \in LLVMCalls :
       /\ tasks[t].st = "ok" /\ tasks[u].st = "ok"
       /\ ClangOf(t, "clang") # ClangOf(u, "clang")
  /\ \E a \in alts : a.name = "cc" /\ a.priority = 40

(***************************************************************************)
(* SpecBrew: setupBrew and the module variable binDir                      *)
(***************************************************************************)
MaxBrewCalls == 3
BrewHosts == {h \in Hosts : h.ubuntu \/ h.xcrun \/ h.platform = "win32"}
ProcessArch == {"arm64", "x64"}

\* getBrewPath(): the directory the installer script installs brew in; the
\* paths end in a slash, here an empty last segment
getBrewPath(h, arch) ==
  IF h.platform = "darwin"
  THEN IF arch = "arm64" THEN <<"opt", "homebrew", "bin", "">>
       ELSE <<"usr", "local", "bin", "">>
  ELSE IF h.platform = "linux" THEN <<"home", "linuxbrew", ".linuxbrew", "bin", "">>
  ELSE <<"throw">>

\* dirname(path) of patha: the path without its last segment
dirname(path) == SubSeq(path, 1, Len(path) - 1)

\* which("brew", { nothrow: true }): the brew executable of the first PATH entry
\* holding one, or null
which(b) ==
  IF b.installed /\ b.onPath
  THEN Arr(dirname(getBrewPath(host, b.arch)) \o <<"brew">>)
  ELSE Null

BrewIdle ==
  UNCHANGED <<host, tasks, calls, cacheWA, cacheBD, cacheDeps, env, actHist, gv, loc, pip,
              alts, fs, rcs, fin, sv>>

BrewCall(pc, seen, result) == [pc |-> pc, seen |-> seen, result |-> result]

\* setupBrew(version, setupDir, arch) up to its first await
SetupBrew ==
  /\ Len(brew.calls) < MaxBrewCalls
  /\ brew' = [brew EXCEPT !.calls =
       Append(@, IF host.platform \notin {"darwin", "linux"}
                 THEN BrewCall("done", brew.binDir, Undefined)
                 ELSE IF brew.binDir # Undefined
                 THEN BrewCall("done", brew.binDir, brew.binDir)
                 ELSE BrewCall("which", brew.binDir, "-"))]
  /\ BrewIdle

\* await which("brew", { nothrow: true }) answers: brew is found and its
\* directory recorded, or the download of the installer script starts
BrewWhich(c) ==
  /\ brew.calls[c].pc = "which"
  /\ brew' = IF which(brew) # Null
             THEN [brew EXCEPT !.binDir = Str(dirname(which(brew).v)),
                               !.calls[c].pc = "done",
                               !.calls[c].result = Str(dirname(which(brew).v))]
             ELSE [brew EXCEPT !.calls[c].pc = "dl.start"]
  /\ BrewIdle

BrewOutcomes == {"download", "installer", "ok"}

\* await dl.start() rejects, or resolves and execaSync runs the installer script,
\* which throws or installs brew; then binDir = getBrewPath() and addPath starts
BrewInstall(c, outcome) ==
  /\ brew.calls[c].pc = "dl.start"
  /\ brew' =
       IF outcome = "download" THEN [brew EXCEPT !.calls[c].pc = "err"]
       ELSE IF outcome = "installer"
       THEN [brew EXCEPT !.calls[c].pc = "err", !.runs = @ + 1]
       ELSE [brew EXCEPT !.calls[c].pc = "addPath", !.runs = @ + 1, !.installed = TRUE,
                         !.binDir = Str(getBrewPath(host, brew.arch))]
  /\ BrewIdle

\* await addPath(binDir, rcOptions) settles; { binDir } is returned
BrewAddPath(c, ok) ==
  /\ brew.calls[c].pc = "addPath"
  /\ brew' = IF ok
             THEN [brew EXCEPT !.onPath = TRUE, !.calls[c].pc = "done",
                               !.calls[c].result = brew.binDir]
             ELSE [brew EXCEPT !.calls[c].pc = "err"]
  /\ BrewIdle

InitBrew ==
  /\ host \in BrewHosts
  /\ \E arch \in ProcessArch, there \in BOOLEAN :
       brew = [pc |-> "on", arch |-> arch, binDir |-> Undefined,
               installed |-> there, onPath |-> there, runs |-> 0, calls |-> <<>>]
  /\ tasks = <<>>
  /\ calls = <<>>
  /\ cacheWA = <<>>
  /\ cacheBD = <<>>
  /\ cacheDeps = <<>>
  /\ env = EmptyEnv
  /\ actHist = <<>>
  /\ gv = NoGv
  /\ loc = NoLoc
  /\ pip = NoPip
  /\ alts = NoAlts
  /\ fs = NoFs /\ rcs = NoRcs /\ fin = NoFin /\ sv = NoSv

NextBrew ==
  \/ SetupBrew
  \/ \E c \in 1..Len(brew.calls) : BrewWhich(c)
  \/ \E c \in 1..Len(brew.calls), outcome \in BrewOutcomes : BrewInstall(c, outcome)
  \/ \E c \in 1..Len(brew.calls), ok \in BOOLEAN : BrewAddPath(c, ok)

SpecBrew == InitBrew /\ [][NextBrew]_vars

\* a call that found binDir recorded returned it at once
ReturnedCached(c) ==
  /\ brew.calls[c].pc = "done"
  /\ brew.calls[c].result = brew.calls[c].seen

\* a call made once binDir is recorded returned it at once, and on a platform
\* other than darwin and linux every call returned undefined and nothing changed
CachedBinDir ==
  /\ \A c \in 1..Len(brew.calls) :
       (host.platform \in {"darwin", "linux"} /\ brew.calls[c].seen # Undefined)
         => ReturnedCached(c)
  /\ host.platform \notin {"darwin", "linux"} =>
       /\ brew.binDir = Undefined /\ brew.runs = 0
       /\ \A c \in 1..Len(brew.calls) :
            brew.calls[c].pc = "done" /\ brew.calls[c].result = Undefined

\* C23: the installer script runs at most once per process, also with several
\* setupBrew calls in flight; a call made once binDir is recorded returns that
\* binDir without probing, downloading or installing; on a platform other than
\* darwin and linux setupBrew returns undefined and binDir stays as it was.
C23_InstallerOnce ==
  /\ brew.runs <= 1
  /\ CachedBinDir

(***************************************************************************)
(* SpecRC: sourceRC and the files it appends to.  A file is the sequence   *)
(* of the texts appended to it.                                            *)
(***************************************************************************)
MaxRcCalls == 3
RcPaths == {"~/.cpprc", "~/.toolrc"}
ProfilePath == "~/.profile"
BashrcPath == "~/.bashrc"
FileNames == {ProfilePath, BashrcPath} \cup RcPaths

NoFile == [exists |-> FALSE, text |-> <<>>]
File(text) == [exists |-> TRUE, text |-> text]

\* the text sourceRC_raw builds from rcPath
sourceRcString(rcPath) == <<"# source .cpprc", "-f", rcPath, "source", rcPath>>
rcHeader == <<"# Automatically Generated by os-env", "export SOURCE_CPPRC=0">>

\* content.includes(text)
includes(content, text) == \E i \in 1..Len(content) : content[i] = text
\* appendFile(path, text)
appendFile(file, text) == File(file.text \o <<text>>)

\* the three functions that sourceRC_raw hands to Promise.all
Subs == {"addRCHeader", "sourceRcInProfile", "sourceRCInBashrc"}
PathOf(rcPath, sub) ==
  IF sub = "addRCHeader" THEN rcPath
  ELSE IF sub = "sourceRcInProfile" THEN ProfilePath ELSE BashrcPath
TextOf(rcPath, sub) ==
  IF sub = "addRCHeader" THEN rcHeader ELSE sourceRcString(rcPath)

\* sourceRC_raw(rcPath) up to await Promise.all(..): each function is at its
\* await pathExists(..)
sourceRC_raw(rcPath) ==
  [rcPath |-> rcPath, st |-> "pending", warned |-> FALSE,
   sub |-> [f \in Subs |-> "readFile"]]

\* await Promise.all(..) of sourceRC_raw: it settles as soon as the three
\* functions are done or one of them has thrown; the catch turns the rejection
\* into a warning and the promise of sourceRC_raw resolves
PromiseAll(run) ==
  IF run.st = "pending" /\ \A f \in Subs : run.sub[f] = "done"
  THEN [run EXCEPT !.st = "resolved"]
  ELSE IF run.st = "pending" /\ \E f \in Subs : run.sub[f] = "failed"
  THEN [run EXCEPT !.st = "resolved", !.warned = TRUE]
  ELSE run

RCIdle ==
  UNCHANGED <<host, tasks, calls, cacheWA, cacheBD, cacheDeps, env, actHist, gv, loc, pip,
              alts, brew, fin, sv>>

\* sourceRC(rcPath): the memoized call
SourceRC(rcPath) ==
  /\ Len(rcs.calls) < MaxRcCalls
  /\ LET m == Memoized(rcs.cache, rcPath, Len(rcs.runs) + 1)
     IN rcs' = [rcs EXCEPT !.cache = m.cache,
                           !.calls = Append(@, m.id),
                           !.runs = IF m.hit THEN @ ELSE Append(@, sourceRC_raw(rcPath))]
  /\ UNCHANGED fs
  /\ RCIdle

\* await pathExists(path) and await readFile(path) of one of the three functions:
\* nothing to do when the file is missing or holds the text, else appendFile
\* starts; the continuation of Promise.all runs before any other file operation
\* completes
RcRead(r, f, ok) ==
  /\ rcs.runs[r].sub[f] = "readFile"
  /\ LET file == fs[PathOf(rcs.runs[r].rcPath, f)]
     IN /\ ok \/ file.exists
        /\ rcs' = [rcs EXCEPT !.runs[r] = PromiseAll([@ EXCEPT !.sub[f] =
             IF ~file.exists THEN "done"
             ELSE IF ~ok THEN "failed"
             ELSE IF includes(file.text, TextOf(rcs.runs[r].rcPath, f)) THEN "done"
             ELSE "appendFile"])]
  /\ UNCHANGED fs
  /\ RCIdle

\* await appendFile(path, text) settles
RcAppend(r, f, ok) ==
  /\ rcs.runs[r].sub[f] = "appendFile"
  /\ rcs' = [rcs EXCEPT !.runs[r] =
       PromiseAll([@ EXCEPT !.sub[f] = IF ok THEN "done" ELSE "failed"])]
  /\ fs' = IF ok
           THEN [fs EXCEPT ![PathOf(rcs.runs[r].rcPath, f)] =
                   appendFile(@, TextOf(rcs.runs[r].rcPath, f))]
           ELSE fs
  /\ RCIdle

InitRC ==
  /\ host \in {h \in Hosts : h.ubuntu}
  /\ \E profile, bashrc, rc \in {NoFile, File(<<>>)} :
       fs = [n \in FileNames |->
               IF n = ProfilePath THEN profile ELSE IF n = BashrcPath THEN bashrc ELSE rc]
  /\ rcs = [pc |-> "on", cache |-> <<>>, calls |-> <<>>, runs |-> <<>>]
  /\ tasks = <<>>
  /\ calls = <<>>
  /\ cacheWA = <<>>
  /\ cacheBD = <<>>
  /\ cacheDeps = <<>>
  /\ env = EmptyEnv
  /\ actHist = <<>>
  /\ gv = NoGv
  /\ loc = NoLoc
  /\ pip = NoPip
  /\ alts = NoAlts
  /\ brew = NoBrew /\ fin = NoFin /\ sv = NoSv

NextRC ==
  \/ \E rcPath \in RcPaths : SourceRC(rcPath)
  \/ \E r \in 1..Len(rcs.runs), f \in Subs, ok \in BOOLEAN : RcRead(r, f, ok)
  \/ \E r \in 1..Len(rcs.runs), f \in Subs, ok \in BOOLEAN : RcAppend(r, f, ok)

SpecRC == InitRC /\ [][NextRC]_vars

Occurrences(content, text) == Cardinality({i \in 1..Len(content) : content[i] = text})

\* C24: after any sequence and interleaving of sourceRC calls ~/.profile and
\* ~/.bashrc hold the sourcing block of each rcPath at most once and each rc file
\* holds the header at most once; a failure is reported as a warning and the
\* promise of sourceRC is never rejected.
C24_BlockAtMostOnce ==
  /\ \A rcPath \in RcPaths :
       /\ Occurrences(fs[ProfilePath].text, sourceRcString(rcPath)) <= 1
       /\ Occurrences(fs[BashrcPath].text, sourceRcString(rcPath)) <= 1
       /\ Occurrences(fs[rcPath].text, rcHeader) <= 1
  /\ \A r \in 1..Len(rcs.runs) :
       /\ rcs.runs[r].st \in {"pending", "resolved"}
       /\ rcs.runs[r].warned => \E f \in Subs : rcs.runs[r].sub[f] = "failed"

(***************************************************************************)
(* SpecFinalize: finalizeRC.  The rc file is a string, a sequence of       *)
(* characters.                                                             *)
(***************************************************************************)
MaxRcLen == 5
MaxFinalize == 2
RcChars == {"a", "b", "\n"}
RcTexts == UNION {[1..n -> RcChars] : n \in 0..MaxRcLen}

\* str.split("\n")
RECURSIVE split(_)
split(str) ==
  IF \A i \in 1..Len(str) : str[i] # "\n" THEN <<str>>
  ELSE LET i == CHOOSE k \in 1..Len(str) :
                  str[k] = "\n" /\ \A m \in 1..(k - 1) : str[m] # "\n"
       IN <<SubSeq(str, 1, i - 1)>> \o split(SubSeq(str, i + 1, Len(str)))

\* entries.join("\n")
RECURSIVE join(_)
join(entries) ==
  IF Len(entries) = 0 THEN <<>>
  ELSE IF Len(entries) = 1 THEN entries[1]
  ELSE entries[1] \o <<"\n">> \o join(Tail(entries))

\* [...new Set(entries)]: the elements in the order of their first insertion
RECURSIVE SetOf(_)
SetOf(entries) ==
  IF Len(entries) = 0 THEN <<>>
  ELSE LET front == SetOf(SubSeq(entries, 1, Len(entries) - 1))
           last == entries[Len(entries)]
       IN IF \E i \in 1..Len(front) : front[i] = last THEN front ELSE Append(front, last)

\* a removal of duplicates that keeps the earliest entry
uniqueEntriesEarliest(entries) == SetOf(entries)

\* [...new Set(entries.reverse())].reverse()
uniqueEntries(entries) == reverse(SetOf(reverse(entries)))

RcFile(text, userWrite) == [exists |-> TRUE, text |-> text, userWrite |-> userWrite]
NoRcFile == [exists |-> FALSE, text |-> <<>>, userWrite |-> FALSE]

FinalizeIdle ==
  UNCHANGED <<host, tasks, calls, cacheWA, cacheBD, cacheDeps, env, actHist, gv, loc, pip,
              alts, brew, rcs, sv>>

\* finalizeRC(rcPath); writeFile may throw, and then the file is as it was
FinalizeRC(ok) ==
  /\ fin.calls < MaxFinalize
  /\ ok \/ fs.exists
  /\ fs' = IF fs.exists /\ ok
           THEN RcFile(join(uniqueEntries(split(fs.text))), TRUE)
           ELSE fs
  /\ fin' = [fin EXCEPT !.calls = @ + 1,
                        !.written = IF fs.exists /\ ok THEN @ + 1 ELSE @]
  /\ FinalizeIdle

InitFinalize ==
  /\ host \in {h \in Hosts : h.ubuntu}
  /\ fs \in {NoRcFile} \cup {RcFile(text, w) : text \in RcTexts, w \in BOOLEAN}
  /\ fin = [pc |-> "on", before |-> fs, calls |-> 0, written |-> 0]
  /\ tasks = <<>>
  /\ calls = <<>>
  /\ cacheWA = <<>>
  /\ cacheBD = <<>>
  /\ cacheDeps = <<>>
  /\ env = EmptyEnv
  /\ actHist = <<>>
  /\ gv = NoGv
  /\ loc = NoLoc
  /\ pip = NoPip
  /\ alts = NoAlts
  /\ brew = NoBrew /\ rcs = NoRcs /\ sv = NoSv

NextFinalize == \E ok \in BOOLEAN : FinalizeRC(ok)

SpecFinalize == InitFinalize /\ [][NextFinalize]_vars

\* the position of the latest occurrence of a line
LatestIndex(entries, line) ==
  CHOOSE i \in 1..Len(entries) :
    entries[i] = line /\ \A k \in (i + 1)..Len(entries) : entries[k] # line

\* the file once finalizeRC has written it, against the file before the first call
Finalized(before, after) ==
  /\ \A i, j \in 1..Len(after) : after[i] = after[j] => i = j
  /\ {after[i] : i \in 1..Len(after)} = {before[i] : i \in 1..Len(before)}
  /\ \A i, j \in 1..Len(after) :
       i < j => LatestIndex(before, after[i]) < LatestIndex(before, after[j])

\* C25: finalizeRC rewrites the rc file so that every distinct line occurs
\* exactly once, in the order of the latest occurrences; a second finalizeRC
\* leaves the file as the first wrote it; when the rc file does not exist
\* nothing is written.
C25_FinalizeLatestOnce ==
  /\ fin.written >= 1 =>
       /\ Finalized(split(fin.before.text), split(fs.text))
       /\ fs.text = join(uniqueEntries(split(fin.before.text)))
       /\ join(uniqueEntries(split(fs.text))) = fs.text
  /\ fin.written = 0 => fs = fin.before
  /\ ~fin.before.exists => fs = NoRcFile

\* the file a\nb\na was finalized twice and holds b\na
C25_Witness ==
  /\ fin.written = 2
  /\ fin.before.text = <<"a", "\n", "b", "\n", "a">>
  /\ fs.text = <<"b", "\n", "a">>

(***************************************************************************)
(* SpecSync: syncVersions                                                  *)
(***************************************************************************)
MaxTools == 3
SyncInputs == {"llvm", "clangtidy", "clangformat"}
OptKeys == SyncInputs \cup {"architecture"}
OptVersions == {Undefined, Str("true"), Str("10"), Str("11")}
ToolLists == UNION {[1..n -> SyncInputs] : n \in 0..MaxTools}

\* tools.filter((tool) => opts[tool] !== undefined)
toolsInUse(opts, tools) ==
  LET InUse(tool) == opts[tool] # Undefined
  IN SelectSeq(tools, InUse)

\* toolsInUse.filter((tool) => !isVersionDefault(opts[tool]))
toolsNonDefaultVersion(opts, tools) ==
  LET NonDefault(tool) == ~isVersionDefault(opts[tool])
  IN SelectSeq(toolsInUse(opts, tools), NonDefault)

targetVersion(opts, tools) ==
  IF Len(toolsNonDefaultVersion(opts, tools)) >= 1
  THEN opts[toolsNonDefaultVersion(opts, tools)[1]]
  ELSE Str("true")

\* a syncVersions that does not compare the explicit versions
syncVersionsUnchecked(opts, tools) ==
  [result |-> TRUE,
   opts |-> [k \in DOMAIN opts |->
               IF \E i \in 1..Len(toolsInUse(opts, tools)) : toolsInUse(opts, tools)[i] = k
               THEN targetVersion(opts, tools)
               ELSE opts[k]]]

\* syncVersions(opts, tools): the value returned and opts as it leaves it
syncVersions(opts, tools) ==
  LET nonDefault == toolsNonDefaultVersion(opts, tools)
      inUse == toolsInUse(opts, tools)
  IN IF \E i \in 1..Len(nonDefault) : opts[nonDefault[i]] # targetVersion(opts, tools)
     THEN [result |-> FALSE, opts |-> opts]
     ELSE [result |-> TRUE,
           opts |-> [k \in DOMAIN opts |->
                       IF \E i \in 1..Len(inUse) : inUse[i] = k
                       THEN targetVersion(opts, tools)
                       ELSE opts[k]]]

SyncIdle ==
  UNCHANGED <<host, tasks, calls, cacheWA, cacheBD, cacheDeps, env, actHist, gv, loc, pip,
              alts, brew, fs, rcs, fin>>

\* syncVersions(opts, tools) is called
SyncVersionsCall ==
  /\ sv.pc = "call"
  /\ sv' = [sv EXCEPT !.pc = "done",
                      !.opts = syncVersions(sv.opts, sv.tools).opts,
                      !.result = syncVersions(sv.opts, sv.tools).result]
  /\ SyncIdle

\* syncVersions is called again with the opts the first call left
SyncVersionsAgain ==
  /\ sv.pc = "done"
  /\ sv' = [sv EXCEPT !.pc = "again",
                      !.opts = syncVersions(sv.opts, sv.tools).opts,
                      !.again = syncVersions(sv.opts, sv.tools).result]
  /\ SyncIdle

InitSync ==
  /\ host \in {h \in Hosts : h.ubuntu}
  /\ \E opts \in [SyncInputs -> OptVersions], tools \in ToolLists :
       LET all == [k \in OptKeys |-> IF k \in SyncInputs THEN opts[k] ELSE Str("x64")]
       IN sv = [pc |-> "call", before |-> all, opts |-> all, tools |-> tools,
                result |-> "-", again |-> "-"]
  /\ tasks = <<>>
  /\ calls = <<>>
  /\ cacheWA = <<>>
  /\ cacheBD = <<>>
  /\ cacheDeps = <<>>
  /\ env = EmptyEnv
  /\ actHist = <<>>
  /\ gv = NoGv
  /\ loc = NoLoc
  /\ pip = NoPip
  /\ alts = NoAlts
  /\ brew = NoBrew /\ fs = NoFs /\ rcs = NoRcs /\ fin = NoFin

NextSync ==
  \/ SyncVersionsCall
  \/ SyncVersionsAgain

SpecSync == InitSync /\ [][NextSync]_vars

\* the tools of the list that opts had a value for, and their explicit versions
InUse == {k \in SyncInputs :
            sv.before[k] # Undefined /\ \E i \in 1..Len(sv.tools) : sv.tools[i] = k}
Explicit == {sv.before[k] : k \in {t \in InUse : sv.before[t] # Str("true")}}

\* C26: syncVersions returns false and leaves opts as it was when two tools in
\* use carry different explicit versions; otherwise it returns true, every tool
\* in use has the one explicit version, or "true" when there is none, and the
\* tools not in use and the other fields of opts are as they were.
C26_SyncVersions ==
  sv.pc = "done" =>
    /\ Cardinality(Explicit) >= 2 => (sv.result = FALSE /\ sv.opts = sv.before)
    /\ Cardinality(Explicit) <= 1 =>
         /\ sv.result = TRUE
         /\ \A k \in InUse :
              sv.opts[k] = IF Explicit = {} THEN Str("true") ELSE CHOOSE v \in Explicit : TRUE
         /\ \A k \in OptKeys \ InUse : sv.opts[k] = sv.before[k]

\* llvm was given "10", clangtidy "true", clangformat nothing: the call returned
\* true, clangtidy is "10" and clangformat is still undefined
C26_Witness ==
  /\ sv.pc = "done" /\ sv.result = TRUE
  /\ sv.tools = <<"llvm", "clangtidy", "clangformat">>
  /\ sv.before["llvm"] = Str("10") /\ sv.before["clangtidy"] = Str("true")
  /\ sv.before["clangformat"] = Undefined
  /\ sv.opts["clangtidy"] = Str("10") /\ sv.opts["clangformat"] = Undefined

====
